---- MODULE Spec2Model ----
(***************************************************************************)
(* Neutron: the scheduler (scheduler.ts), its once-per-day guard and the   *)
(* performance store (performance.ts).                                     *)
(*                                                                         *)
(* Time is the UTC instant `now` in minutes since a Monday 00:00 UTC, plus *)
(* `ms`, the milliseconds elapsed inside the current minute.  A calendar   *)
(* date (the string YYYY-MM-DD in the code) is the number of the day since *)
(* that Monday; the code compares dates as strings, which for ISO dates is *)
(* the order of the day numbers.  The server's own zone is UTC             *)
(* (scheduler.ts line 17), so `new Date(now.toLocaleString('en-US',        *)
(* {timeZone: 'America/New_York'}))` is the instant whose UTC fields are   *)
(* the New York wall clock.                                                *)
(***************************************************************************)
EXTENDS Integers, Sequences, FiniteSets, Bags, TLC

VARIABLES
    now,        \* UTC minutes since Monday 00:00 UTC
    ms,         \* milliseconds inside the current minute
    etOffset,   \* minutes New York is behind UTC: 300 (EST) or 240 (EDT)
    perf,       \* the persisted PerformanceData document (performance.json)
    brain,      \* the knowledge files written by saveToBrain, as <<kind, date>> names;
                \* in SpecBrain the whole knowledge directory, each file with its metadata
    ranToday,   \* scheduler.ts: ranToday, scan name -> date of the last mark
    jobs,       \* the async job bodies in flight, each at an await
    alive,      \* the process (and with it the setInterval loop) is running
    ticked,     \* the interval callback has run at the instant `now`
    tickNo,     \* how many instants the clock has visited
    created,    \* number of recordRecommendation calls that saved
    apiCalls,   \* number of direct calls made of the exported store and maintenance functions
    dispatched, \* history: the <<task, local date>> pairs of every dispatch, as a bag
    marks,      \* history: the <<task, local date>> pairs of every markRanToday call
    snapshot,   \* what exportWeeklySummary last wrote to shared/neutron-weekly.md
    failed,     \* history: some job has failed (a call in it threw)
    last        \* history: what the last step did

vars == <<now, ms, etOffset, perf, brain, ranToday, jobs, alive, ticked, tickNo, created,
          apiCalls, dispatched, marks, snapshot, failed, last>>

-----------------------------------------------------------------------------
(* Program constants *)

RecCap == 200            \* performance.ts: recommendations.slice(-200)
ScoreCap == 52           \* performance.ts: weeklyScores.slice(-52)
NoteCap == 30            \* performance.ts: strategyNotes.slice(-30)
ReviewCap == 15          \* scheduler.ts: pending.slice(0, 15)
MinutesPerDay == 1440
MsPerMinute == 60000
EST == 300
EDT == 240

NoDate == -1             \* '' in lastNightlyReview / lastWeeklyReview, and an unset ranToday entry
NoStamp == -1            \* reviewedAt undefined
Undefined == "undefined" \* an optional string field that is not set
NoSnapshot == [generated |-> -1]   \* shared/neutron-weekly.md has not been written

Tasks == {"morning", "eod", "nightly-review", "weekly-review", "maintenance"}
Terminal == {"correct", "wrong", "partial"}

-----------------------------------------------------------------------------
(* Sequence helpers (Array.prototype) *)

\* arr.slice(-n)
SliceLast(s, n) == IF Len(s) <= n THEN s ELSE SubSeq(s, Len(s) - n + 1, Len(s))

\* arr.slice(0, n)
SliceFirst(s, n) == IF Len(s) <= n THEN s ELSE SubSeq(s, 1, n)

\* a lookup that falls back to the newest entry when nothing matches
FindIndexOrLast(recs, id) ==
    IF \E i \in 1..Len(recs) : recs[i].id = id
    THEN CHOOSE i \in 1..Len(recs) :
            /\ recs[i].id = id
            /\ \A j \in 1..(i - 1) : recs[j].id # id
    ELSE Len(recs)

\* arr.find(r => r.id === id): the index of the first match, 0 when there is none
FindIndex(recs, id) ==
    IF \E i \in 1..Len(recs) : recs[i].id = id
    THEN CHOOSE i \in 1..Len(recs) :
            /\ recs[i].id = id
            /\ \A j \in 1..(i - 1) : recs[j].id # id
    ELSE 0

\* Number.prototype.toString(36): the base-36 digits, most significant first
RECURSIVE toString36(_)
toString36(n) == IF n < 36 THEN <<n>> ELSE toString36(n \div 36) \o <<n % 36>>

-----------------------------------------------------------------------------
(* Clock readings *)

\* Date.now()
DateNow == now * MsPerMinute + ms

\* new Date(Date.now() - k days).toISOString().split('T')[0]: the UTC date
utcDateAgo(days) == (now - days * MinutesPerDay) \div MinutesPerDay

\* new Date().toISOString().split('T')[0]
utcToday == utcDateAgo(0)

\* the New York wall clock, in minutes since the epoch
etWall == now - etOffset

getETHour == (etWall % MinutesPerDay) \div 60
getETMinute == etWall % 60
getTodayET == etWall \div MinutesPerDay
\* Date.prototype.getDay(): 0 = Sunday .. 6 = Saturday (day 0 of the model is a Monday)
getDay == (getTodayET + 1) % 7
isWeekday == getDay >= 1 /\ getDay <= 5

-----------------------------------------------------------------------------
(* TimeGate: ranToday *)

\* a guard that never reports a run
hasRunTodayNever(map, scanName) == FALSE

\* a guard that reports a run of any scan name of today
hasRunTodayAny(map, scanName) == \E t \in DOMAIN map : map[t] = getTodayET

\* ranToday.get(scanName) === getTodayET(); map is the ranToday map it reads
hasRunToday(map, scanName) == map[scanName] = getTodayET

\* a mark that lands on every scan name
markRanTodayAll(map, scanName) == [t \in DOMAIN map |-> getTodayET]

\* ranToday.set(scanName, getTodayET())
markRanToday(map, scanName) == [map EXCEPT ![scanName] = getTodayET]

-----------------------------------------------------------------------------
(* performance.ts *)

defaultPerformance ==
    [recommendations |-> <<>>, weeklyScores |-> <<>>, strategyNotes |-> <<>>,
     lastNightlyReview |-> NoDate, lastWeeklyReview |-> NoDate]

\* `${rec.date}-${rec.ticker}-${Date.now().toString(36)}`
MakeId(date, ticker, t) == <<date, ticker, toString36(t)>>

\* a record that trims the ledger only once it is two past the cap
recordRecommendationLate(data, rec) ==
    LET entry == [id |-> MakeId(rec.date, rec.ticker, DateNow),
                  date |-> rec.date, ticker |-> rec.ticker, direction |-> rec.direction,
                  confidence |-> rec.confidence, type |-> rec.type, summary |-> rec.summary,
                  outcome |-> Undefined, reviewedAt |-> NoStamp, reviewNotes |-> Undefined]
        pushed == Append(data.recommendations, entry)
    IN  [data EXCEPT !.recommendations =
            IF Len(pushed) > RecCap + 1 THEN SliceLast(pushed, RecCap) ELSE pushed]

\* rec: the Omit<Recommendation, 'id'> argument; the optional fields start unset
recordRecommendation(data, rec) ==
    LET entry == [id |-> MakeId(rec.date, rec.ticker, DateNow),
                  date |-> rec.date, ticker |-> rec.ticker, direction |-> rec.direction,
                  confidence |-> rec.confidence, type |-> rec.type, summary |-> rec.summary,
                  outcome |-> Undefined, reviewedAt |-> NoStamp, reviewNotes |-> Undefined]
        pushed == Append(data.recommendations, entry)
    IN  [data EXCEPT !.recommendations =
            IF Len(pushed) > RecCap THEN SliceLast(pushed, RecCap) ELSE pushed]

getPendingReviews(data) ==
    LET oneDayAgo == utcDateAgo(1)
        recs == data.recommendations
        open == SelectSeq(recs, LAMBDA r : r.outcome = Undefined \/ r.outcome = "pending")
    IN  SelectSeq(open, LAMBDA r : r.date <= oneDayAgo)

\* an assignment that also writes the notes into the summary
SetOutcomeSummary(recs, i, outcome, notes) ==
    [recs EXCEPT ![i] = [@ EXCEPT !.outcome = outcome, !.reviewedAt = DateNow,
                                  !.reviewNotes = notes, !.summary = notes]]

\* the assignment to the found entry (rec.outcome = ...; rec.reviewedAt = ...; rec.reviewNotes = ...)
SetOutcome(recs, i, outcome, notes) ==
    [recs EXCEPT ![i] = [@ EXCEPT !.outcome = outcome, !.reviewedAt = DateNow, !.reviewNotes = notes]]

\* updateOutcome saves only when the id was found
updateOutcome(data, id, outcome, notes) ==
    LET i == FindIndex(data.recommendations, id)
    IN  IF i = 0 THEN data
        ELSE [data EXCEPT !.recommendations = SetOutcome(@, i, outcome, notes)]

RECURSIVE ApplyUpdates(_, _, _)
ApplyUpdates(recs, updates, k) ==
    IF k > Len(updates) THEN recs
    ELSE LET i == FindIndex(recs, updates[k].id)
         IN  ApplyUpdates(IF i = 0 THEN recs
                          ELSE SetOutcome(recs, i, updates[k].outcome, updates[k].notes),
                          updates, k + 1)

\* a batch that also clears the entries it has just scored out of the ledger
batchUpdateOutcomesPrune(data, updates) ==
    [data EXCEPT !.recommendations =
        SelectSeq(ApplyUpdates(@, updates, 1), LAMBDA r : r.reviewedAt # DateNow)]

batchUpdateOutcomes(data, updates) ==
    [data EXCEPT !.recommendations = ApplyUpdates(@, updates, 1)]

\* a weekly score pushed onto a copy of the document taken before this minute's
\* reviews were saved, and that copy written back
recordWeeklyScoreStale(data, score) ==
    LET taken == [i \in 1..Len(data.recommendations) |->
                    IF data.recommendations[i].reviewedAt = DateNow
                    THEN [data.recommendations[i] EXCEPT !.outcome = Undefined,
                              !.reviewedAt = NoStamp, !.reviewNotes = Undefined]
                    ELSE data.recommendations[i]]
    IN  [data EXCEPT !.recommendations = taken,
                     !.weeklyScores = SliceLast(Append(@, score), ScoreCap)]

\* a cap that keeps the oldest entries: slice(0, 52)
recordWeeklyScoreOldest(data, score) ==
    [data EXCEPT !.weeklyScores = SliceFirst(Append(@, score), ScoreCap)]

recordWeeklyScore(data, score) ==
    LET pushed == Append(data.weeklyScores, score)
    IN  [data EXCEPT !.weeklyScores =
            IF Len(pushed) > ScoreCap THEN SliceLast(pushed, ScoreCap) ELSE pushed]

\* the note is prefixed with the UTC date: `[${date}] ${note}`
addStrategyNote(data, note) ==
    LET pushed == Append(data.strategyNotes, <<utcToday, note>>)
    IN  [data EXCEPT !.strategyNotes =
            IF Len(pushed) > NoteCap THEN SliceLast(pushed, NoteCap) ELSE pushed]

markNightlyReview(data) == [data EXCEPT !.lastNightlyReview = utcToday]

markWeeklyReview(data) == [data EXCEPT !.lastWeeklyReview = utcToday]

\* What data/performance.json holds: a PerformanceData record, nothing (the file
\* does not exist), or text that JSON.parse rejects
Missing == [file |-> "missing"]

Unparseable == [file |-> "unparseable"]

\* a load whose fallback carries today's review dates
loadPerformanceReviewed(doc) ==
    IF doc \in {Missing, Unparseable}
    THEN [defaultPerformance EXCEPT !.lastNightlyReview = getTodayET,
                                    !.lastWeeklyReview = getTodayET]
    ELSE doc

\* existsSync false, or readFileSync / JSON.parse throws: defaultPerformance()
loadPerformance(doc) ==
    IF doc \in {Missing, Unparseable} THEN defaultPerformance ELSE doc

getLastNightlyReview == loadPerformance(perf).lastNightlyReview

getLastWeeklyReview == loadPerformance(perf).lastWeeklyReview

-----------------------------------------------------------------------------
(* Bounds of the model *)

MaxTicks == 4            \* Spec: instants the clock visits in one behaviour
MaxOverlap == 1          \* Spec: jobs still awaiting the collaborator when the clock moves on
MaxRecs == 2             \* recordRecommendation calls in one behaviour
MaxBatch == 2            \* SpecStore: updates in one direct batchUpdateOutcomes call
MaxCalls == 1            \* SpecStore: direct updateOutcome / batchUpdateOutcomes calls
MaxReviewLines == 1      \* REVIEW lines in one nightly response
SchedTicks == 16         \* SpecSched: instants the clock visits in one behaviour
SchedOverlap == 1        \* SpecSched: jobs still awaiting the collaborator when the clock moves on
MaxMs == 1               \* milliseconds the clock can advance inside one minute
MaxHeard == 2            \* SpecReview: lines in one answer to the nightly review
ReviewTicks == 3         \* SpecReview: instants the clock visits in one behaviour
HangTicks == 4           \* SpecHang: instants the clock visits in one behaviour
MaxRuns == 2             \* SpecBrain: calls of the knowledge-store functions in one behaviour
MaxFaults == 2           \* SpecBrain: files whose unlink fails during one call

Tickers == {"AAPL"}
Directions == {"bullish"}

\* New York minutes of the day at which the model looks at the system
SampleMinutes == {510, 513, 540, 543, 990, 1200, 1203, 1230}

\* Spec: the process starts on a Friday (day 4) at 16:30 New York time
StartWall == 4 * MinutesPerDay + 990

\* SpecSched: the process starts on a Thursday (day 3) at 16:30 New York time
SchedStartWall == 3 * MinutesPerDay + 990

\* SpecStore: a Friday (day 4) at 20:00 New York time
StoreWall == 4 * MinutesPerDay + 1200

-----------------------------------------------------------------------------
(* The collaborator's answers *)

\* an id no recommendation has
UnknownId == <<NoDate, "ZZZZ", <<0>>>>

\* String.prototype.toLowerCase on the outcome words the model draws
toLowerCase(w) ==
    CASE w = "WRONG" -> "wrong"
      [] w = "Skip" -> "skip"
      [] OTHER -> w

Words == {"correct", "WRONG", "partial", "Skip", "pending"}

\* a line `REVIEW: [id] | word | notes`, a line `LESSON: text`, or any other line
ReviewLine(id, word, notes) == [kind |-> "review", id |-> id, word |-> word, text |-> notes]
LessonLine(text) == [kind |-> "lesson", id |-> UnknownId, word |-> "", text |-> text]
OtherLine == [kind |-> "other", id |-> UnknownId, word |-> "", text |-> "prose"]

\* a pattern that also takes the word pending
MatchesReviewPending(line) ==
    /\ line.kind = "review"
    /\ toLowerCase(line.word) \in {"correct", "wrong", "partial", "skip", "pending"}
    /\ line.text # ""

\* line.match(/REVIEW:\s*\[?([^\]|]+)\]?\s*\|\s*(correct|wrong|partial|skip)\s*\|\s*(.+)/i)
MatchesReview(line) ==
    /\ line.kind = "review"
    /\ toLowerCase(line.word) \in {"correct", "wrong", "partial", "skip"}
    /\ line.text # ""

\* a loop that leaves after the first update
RECURSIVE ParseUpdatesFirst(_, _)
ParseUpdatesFirst(resp, k) ==
    IF k > Len(resp) THEN <<>>
    ELSE IF MatchesReview(resp[k]) /\ toLowerCase(resp[k].word) # "skip"
         THEN <<[id |-> resp[k].id, outcome |-> toLowerCase(resp[k].word), notes |-> resp[k].text]>>
         ELSE ParseUpdatesFirst(resp, k + 1)

\* the loop over reviewLines: one update per matching line that is not a skip
RECURSIVE ParseUpdates(_, _)
ParseUpdates(resp, k) ==
    IF k > Len(resp) THEN <<>>
    ELSE (IF MatchesReview(resp[k]) /\ toLowerCase(resp[k].word) # "skip"
          THEN <<[id |-> resp[k].id, outcome |-> toLowerCase(resp[k].word), notes |-> resp[k].text]>>
          ELSE <<>>) \o ParseUpdates(resp, k + 1)

\* response.match(/LESSON:\s*(.+)/i): the first lesson line, <<>> when there is none
LessonMatch(resp) ==
    LET hits == {k \in 1..Len(resp) : resp[k].kind = "lesson" /\ resp[k].text # ""}
    IN  IF hits = {} THEN <<>>
        ELSE <<resp[CHOOSE k \in hits : \A h \in hits : k <= h].text>>

-----------------------------------------------------------------------------
(* scheduler.ts: the jobs *)

NoWeek == [weekOf |-> NoDate, totalCalls |-> 0, correct |-> 0, wrong |-> 0, partial |-> 0,
           accuracy |-> 0]

\* a job body suspended at an await: pc names the await, the rest are its locals
Job(name, pc, scan, listed, week) ==
    [name |-> name, pc |-> pc, today |-> getTodayET, scan |-> scan, listed |-> listed,
     week |-> week]

\* heard: the collaborator's answer when the step is a job receiving it
Step(op, task, day) == [op |-> op, task |-> task, day |-> day, heard |-> <<>>]

\* a process without the handler: an unhandled rejection ends it
unhandledRejectionFatal == FALSE

\* index.ts: process.on('unhandledRejection', ...) logs and returns: the process goes on
unhandledRejection == TRUE

\* index.ts: process.on('uncaughtException', ...) logs and calls process.exit(1)
uncaughtException == FALSE

\* the try/catch around the Saturday maintenance in the interval callback
MaintenanceCatch(threw) == TRUE

\* window tests in which the weekly review is not tied to the Friday
InWindowAtDaily(task, weekday, day, hour, minute) ==
    CASE task = "morning" -> weekday /\ hour = 8 /\ minute >= 30 /\ minute <= 35
      [] task = "eod" -> weekday /\ hour = 16 /\ minute >= 30 /\ minute <= 35
      [] task = "nightly-review" -> weekday /\ hour = 20 /\ minute >= 0 /\ minute <= 5
      [] task = "weekly-review" -> hour = 20 /\ minute >= 30 /\ minute <= 35
      [] task = "maintenance" -> day = 6 /\ hour = 9 /\ minute >= 0 /\ minute <= 5

\* the window tests of the interval callback on the values it has read:
\* weekday = isWeekday(), day = et.getDay(), hour = getETHour(), minute = getETMinute()
InWindowAt(task, weekday, day, hour, minute) ==
    CASE task = "morning" -> weekday /\ hour = 8 /\ minute >= 30 /\ minute <= 35
      [] task = "eod" -> weekday /\ hour = 16 /\ minute >= 30 /\ minute <= 35
      [] task = "nightly-review" -> weekday /\ hour = 20 /\ minute >= 0 /\ minute <= 5
      [] task = "weekly-review" -> day = 5 /\ hour = 20 /\ minute >= 30 /\ minute <= 35
      [] task = "maintenance" -> day = 6 /\ hour = 9 /\ minute >= 0 /\ minute <= 5

InWindow(task) == InWindowAt(task, isWeekday, getDay, getETHour, getETMinute)

\* a filter that keeps every recommendation of the trailing 7 days
ThisWeekAny(data) ==
    LET oneWeekAgo == utcDateAgo(7)
        recs == data.recommendations
    IN  SelectSeq(recs, LAMBDA r : r.date >= oneWeekAgo)

\* weeklyReview: the reviewed recommendations of the trailing 7 days
\* (r.date >= oneWeekAgo && r.outcome && r.outcome !== 'pending')
ThisWeek(data) ==
    LET oneWeekAgo == utcDateAgo(7)
        recs == data.recommendations
    IN  SelectSeq(recs, LAMBDA r : /\ r.date >= oneWeekAgo
                                   /\ r.outcome \notin {Undefined, "", "pending"})

CountOutcome(recs, o) == Cardinality({i \in 1..Len(recs) : recs[i].outcome = o})

(* Math.round((correct + partial * 0.5) / n * 100) in the numbers of the        *)
(* language, IEEE-754 doubles: the quotient is rounded to 53 significant bits   *)
(* (to nearest, ties to even), the product by 100 is rounded again, and         *)
(* Math.round takes the nearest integer, a half going up.  A double is kept as  *)
(* three digits of 18 bits and a scale: its value is                            *)
(* (hi * Limb^2 + mid * Limb + lo) / 2^scale, with 2^16 <= hi <= 2^17.          *)
MantissaBits == 53

Limb == 2^18

\* the number of zeros that open the binary expansion of num / den (0 < num < den)
RECURSIVE LeadingZeros(_, _)
LeadingZeros(num, den) == IF 2 * num >= den THEN 0 ELSE 1 + LeadingZeros(2 * num, den)

\* the digits plus up (0 or 1), the carries taken
Carry(hi, mid, lo, up, scale) ==
    LET lo1 == lo + up
        mid1 == mid + (lo1 \div Limb)
    IN  [hi |-> hi + (mid1 \div Limb), mid |-> mid1 % Limb, lo |-> lo1 % Limb, scale |-> scale]

\* the double nearest to num / den, for 0 < num < den: long division, digit by digit
Divide(num, den) ==
    LET zeros == LeadingZeros(num, den)
        r0 == num * 2^zeros
        hi == (r0 * 2^17) \div den
        r1 == (r0 * 2^17) % den
        mid == (r1 * Limb) \div den
        r2 == (r1 * Limb) % den
        lo == (r2 * Limb) \div den
        r3 == (r2 * Limb) % den
        up == \/ 2 * r3 > den
              \/ 2 * r3 = den /\ lo % 2 = 1
    IN  Carry(hi, mid, lo, IF up THEN 1 ELSE 0, zeros + MantissaBits)

\* the double nearest to x * 100: the exact product has 59 or 60 bits
Times100(x) ==
    LET p3 == x.lo * 100
        p2 == (x.mid * 100) + (p3 \div Limb)
        p1 == (x.hi * 100) + (p2 \div Limb)
        e3 == p3 % Limb
        e2 == p2 % Limb
        drop == IF p1 >= 2^23 THEN 7 ELSE 6
        lo == (e3 \div 2^drop) + (e2 % 2^drop) * 2^(18 - drop)
        mid == (e2 \div 2^drop) + (p1 % 2^drop) * 2^(18 - drop)
        hi == p1 \div 2^drop
        rest == e3 % 2^drop
        up == \/ rest > 2^(drop - 1)
              \/ rest = 2^(drop - 1) /\ lo % 2 = 1
    IN  Carry(hi, mid, lo, IF up THEN 1 ELSE 0, x.scale - drop)

\* Math.round of a double between 0 and 100: floor(x + 0.5)
MathRound(x) ==
    LET k == x.scale - 36
    IN  (x.hi \div 2^k) + ((x.hi \div 2^(k - 1)) % 2)

Accuracy(correct, partial, n) ==
    LET num == 2 * correct + partial
        den == 2 * n
    IN  IF num = 0 THEN 0
        ELSE IF num = den THEN 100
        ELSE MathRound(Times100(Divide(num, den)))

WeekStats(thisWeek) ==
    LET correct == CountOutcome(thisWeek, "correct")
        partial == CountOutcome(thisWeek, "partial")
    IN  [weekOf |-> utcDateAgo(7), totalCalls |-> Len(thisWeek), correct |-> correct,
         wrong |-> CountOutcome(thisWeek, "wrong"), partial |-> partial,
         accuracy |-> Accuracy(correct, partial, Len(thisWeek))]

\* pending.map(r => r.id): the ids rendered into the prompt, in order
Ids(recs) == [i \in 1..Len(recs) |-> recs[i].id]

\* one line of "Recent Recommendations": date, direction, ticker, confidence, the
\* outcome or [pending], and summary.slice(0, 80) (the summaries of the model
\* are shorter than 80 characters)
RecLine(r) ==
    [date |-> r.date, direction |-> r.direction, ticker |-> r.ticker,
     confidence |-> r.confidence,
     outcome |-> IF r.outcome = Undefined THEN "pending" ELSE r.outcome,
     summary |-> r.summary]

\* an export that lists the five oldest notes and the ten oldest recommendations
exportWeeklySummaryOldest(data) ==
    LET reviewed == SelectSeq(data.recommendations,
                              LAMBDA r : r.outcome \notin {Undefined, "pending"})
        correct == CountOutcome(reviewed, "correct")
        scores == data.weeklyScores
        recent == SliceFirst(data.recommendations, 10)
    IN  [generated |-> DateNow,
         reviewed |-> Len(reviewed),
         accuracy |-> IF Len(reviewed) > 0 THEN Accuracy(correct, 0, Len(reviewed)) ELSE -1,
         correct |-> correct,
         wrong |-> CountOutcome(reviewed, "wrong"),
         partial |-> CountOutcome(reviewed, "partial"),
         lastWeek |-> IF Len(scores) = 0 THEN <<>>
                      ELSE <<scores[Len(scores)].weekOf, scores[Len(scores)].accuracy>>,
         lesson |-> IF Len(scores) = 0 \/ scores[Len(scores)].lesson = "" THEN <<>>
                    ELSE <<scores[Len(scores)].lesson>>,
         notes |-> SliceFirst(data.strategyNotes, 5),
         recs |-> [i \in 1..Len(recent) |-> RecLine(recent[i])]]

\* The parts of the document exportWeeklySummary renders from the performance
\* data and the clock (the investor, watchlist and brain sections come from other
\* components).  reviewed: outcome set and not 'pending'; accuracy:
\* ((correct / reviewed.length) * 100).toFixed(0), -1 standing for 'N/A';
\* weeklyScores.slice(-1)[0]; strategyNotes.slice(-5); recommendations.slice(-10)
exportWeeklySummary(data) ==
    LET reviewed == SelectSeq(data.recommendations,
                              LAMBDA r : r.outcome \notin {Undefined, "pending"})
        correct == CountOutcome(reviewed, "correct")
        scores == data.weeklyScores
        recent == SliceLast(data.recommendations, 10)
    IN  [generated |-> DateNow,
         reviewed |-> Len(reviewed),
         accuracy |-> IF Len(reviewed) > 0 THEN Accuracy(correct, 0, Len(reviewed)) ELSE -1,
         correct |-> correct,
         wrong |-> CountOutcome(reviewed, "wrong"),
         partial |-> CountOutcome(reviewed, "partial"),
         lastWeek |-> IF Len(scores) = 0 THEN <<>>
                      ELSE <<scores[Len(scores)].weekOf, scores[Len(scores)].accuracy>>,
         lesson |-> IF Len(scores) = 0 \/ scores[Len(scores)].lesson = "" THEN <<>>
                    ELSE <<scores[Len(scores)].lesson>>,
         notes |-> SliceLast(data.strategyNotes, 5),
         recs |-> [i \in 1..Len(recent) |-> RecLine(recent[i])]]

(* The synchronous head of a job, run inside the interval callback up to the    *)
(* job's first await.  st is [perf, jobs, alive, failed]; writeOk says        *)
(* whether writeFileSync succeeds; hasTickers whether the watchlist is empty.   *)
(* An exception here rejects the job's promise, which nothing awaits.           *)
Rejected(st) ==
    [st EXCEPT !.alive = @ /\ unhandledRejection, !.failed = TRUE]

scanHead(name, st, hasTickers) ==
    [st EXCEPT !.jobs = @ \cup {Job(name, IF hasTickers THEN "ctx" ELSE "ask", <<>>, <<>>, NoWeek)}]

nightlyReviewHead(st, writeOk) ==
    IF loadPerformance(st.perf).lastNightlyReview = getTodayET THEN st
    ELSE LET pending == getPendingReviews(loadPerformance(st.perf))
         IN  IF Len(pending) = 0
             THEN IF writeOk THEN [st EXCEPT !.perf = markNightlyReview(loadPerformance(@))]
                  ELSE Rejected(st)
             ELSE [st EXCEPT !.jobs = @ \cup
                      {Job("nightly-review", "ask", <<>>, Ids(SliceFirst(pending, ReviewCap)), NoWeek)}]

weeklyReviewHead(st, writeOk) ==
    IF loadPerformance(st.perf).lastWeeklyReview = getTodayET THEN st
    ELSE LET thisWeek == ThisWeek(loadPerformance(st.perf))
         IN  IF Len(thisWeek) < 2
             THEN IF writeOk THEN [st EXCEPT !.perf = markWeeklyReview(loadPerformance(@))]
                  ELSE Rejected(st)
             ELSE [st EXCEPT !.jobs = @ \cup
                      {Job("weekly-review", "ask", <<>>, <<>>, WeekStats(thisWeek))}]

\* runBrainMaintenance(); exportWeeklySummary(); inside try/catch
maintenanceBody(st, writeOk) ==
    IF writeOk THEN [st EXCEPT !.snapshot = exportWeeklySummary(loadPerformance(st.perf))]
    ELSE [st EXCEPT !.alive = @ /\ (MaintenanceCatch(TRUE) \/ uncaughtException),
                    !.failed = TRUE]

JobHead(task, st, writeOk, hasTickers) ==
    CASE task = "morning" -> scanHead("morning", st, hasTickers)
      [] task = "eod" -> scanHead("eod", st, hasTickers)
      [] task = "nightly-review" -> nightlyReviewHead(st, writeOk)
      [] task = "weekly-review" -> weeklyReviewHead(st, writeOk)
      [] task = "maintenance" -> maintenanceBody(st, writeOk)

\* the order of the five ifs in the interval callback
TaskOrder == <<"morning", "eod", "nightly-review", "weekly-review", "maintenance">>

\* one `if (window && !hasRunToday(name)) { markRanToday(name); job(client); }`
RECURSIVE RunIfs(_, _, _, _, _)
RunIfs(k, ran, st, writeOk, hasTickers) ==
    IF k > Len(TaskOrder) THEN [ran |-> ran, st |-> st, fired |-> {}]
    ELSE LET task == TaskOrder[k]
             fire == InWindow(task) /\ ~hasRunToday(ran, task)
             rest == RunIfs(k + 1,
                            IF fire THEN markRanToday(ran, task) ELSE ran,
                            IF fire THEN JobHead(task, st, writeOk, hasTickers) ELSE st,
                            writeOk, hasTickers)
         IN  [rest EXCEPT !.fired = @ \cup (IF fire THEN {task} ELSE {})]

\* the setInterval callback
Tick ==
    /\ alive
    /\ ~ticked
    /\ \E writeOk \in BOOLEAN, hasTickers \in BOOLEAN :
        LET st0 == [perf |-> perf, jobs |-> jobs, alive |-> alive, failed |-> failed,
                    snapshot |-> snapshot]
            r == RunIfs(1, ranToday, st0, writeOk, hasTickers)
            new == {<<t, getTodayET>> : t \in r.fired}
        IN  /\ ranToday' = r.ran
            /\ perf' = r.st.perf
            /\ jobs' = r.st.jobs
            /\ alive' = r.st.alive
            /\ failed' = r.st.failed
            /\ snapshot' = r.st.snapshot
            /\ dispatched' = dispatched (+) SetToBag(new)
            /\ marks' = marks \cup new
            /\ last' = Step("tick", IF r.fired = {} THEN "none" ELSE CHOOSE t \in r.fired : TRUE,
                            getTodayET)
    /\ UNCHANGED <<now, ms, etOffset, brain, apiCalls, created, tickNo>>
    /\ ticked' = TRUE

-----------------------------------------------------------------------------
(* The tail of a job after an await: a run of synchronous calls, each of which  *)
(* may throw on its write.  failAt = 0: none throws; failAt = k: the k-th does, *)
(* and the job's catch block ends the job there.                                *)

Call(op, arg) == [op |-> op, arg |-> arg]

ApplyCall(data, c) ==
    CASE c.op = "recordRecommendation" -> recordRecommendation(data, c.arg)
      [] c.op = "batchUpdateOutcomes" -> batchUpdateOutcomes(data, c.arg)
      [] c.op = "addStrategyNote" -> addStrategyNote(data, c.arg)
      [] c.op = "recordWeeklyScore" -> recordWeeklyScore(data, c.arg)
      [] c.op = "markNightlyReview" -> markNightlyReview(data)
      [] c.op = "markWeeklyReview" -> markWeeklyReview(data)
      [] OTHER -> data   \* saveToBrain, exportWeeklySummary, runBrainMaintenance

RECURSIVE RunCalls(_, _, _, _)
RunCalls(data, calls, k, failAt) ==
    IF k > Len(calls) \/ k = failAt THEN data
    ELSE RunCalls(ApplyCall(data, calls[k]), calls, k + 1, failAt)

\* the operations that end with savePerformance(data)
StoreOps ==
    {"recordRecommendation", "batchUpdateOutcomes", "addStrategyNote", "recordWeeklyScore",
     "markNightlyReview", "markWeeklyReview"}

\* the document after the calls that ran: each store operation loads it and
\* writes it back; it is left as it is when none of them got to its write
Written(doc, calls, failAt) ==
    IF \E k \in 1..Len(calls) : calls[k].op \in StoreOps /\ (failAt = 0 \/ k < failAt)
    THEN RunCalls(loadPerformance(doc), calls, 1, failAt)
    ELSE doc

\* the knowledge files the calls that ran have written
Saved(calls, failAt) ==
    {calls[k].arg : k \in {n \in 1..Len(calls) : calls[n].op = "saveToBrain"
                                                  /\ (failAt = 0 \/ n < failAt)}}

\* how many of the calls that ran were recordRecommendation
Recorded(calls, failAt) ==
    Cardinality({k \in 1..Len(calls) : calls[k].op = "recordRecommendation"
                                       /\ (failAt = 0 \/ k < failAt)})

\* recordScanRecommendations: one call per ticker found, each ticker once (`seen`)
RECURSIVE ScanCallsFrom(_, _, _)
ScanCallsFrom(scan, type, k) ==
    IF k > Len(scan) THEN <<>>
    ELSE <<Call("recordRecommendation",
                [date |-> getTodayET, ticker |-> scan[k][1], direction |-> scan[k][2],
                 confidence |-> 50, type |-> type, summary |-> "scan"])>>
         \o ScanCallsFrom(scan, type, k + 1)

ScanCalls(scan, type) == ScanCallsFrom(scan, type, 1)

ScanType(name) == IF name = "morning" THEN "morning-brief" ELSE "eod-recap"

\* the directional calls a scan response can carry: none, or one per ticker
Scans == {<<>>} \cup {<<<<t, d>>>> : t \in Tickers, d \in Directions}

\* the ids the model names in answers and calls: the oldest and the newest entry of
\* the ledger, and one the ledger does not hold
SomeIds ==
    LET recs == loadPerformance(perf).recommendations
    IN  (IF Len(recs) = 0 THEN {} ELSE {recs[1].id, recs[Len(recs)].id}) \cup {UnknownId}

ReviewLines == {ReviewLine(id, w, "note") : id \in SomeIds, w \in Words}

\* the nightly review's response: up to MaxReviewLines REVIEW lines, then an
\* optional LESSON line
Responses ==
    {reviews \o lesson :
        reviews \in UNION {[1..n -> ReviewLines] : n \in 0..MaxReviewLines},
        lesson \in {<<>>, <<LessonLine("lesson")>>}}

\* the weekly narrative: what the three regular expressions capture ("" = no match)
WeeklyResponses ==
    {[bestCall |-> "", worstCall |-> "", lesson |-> ""],
     [bestCall |-> "best", worstCall |-> "worst", lesson |-> "lesson"]}

\* a collaborator whose prose carries no REVIEW or LESSON line, no best/worst call
\* and no directional call
QuietResponses == {<<OtherLine>>}
QuietWeekly == {[bestCall |-> "", worstCall |-> "", lesson |-> ""]}
QuietScans == {<<>>}

WeeklyScore(week, resp) ==
    [weekOf |-> week.weekOf, totalCalls |-> week.totalCalls, correct |-> week.correct,
     wrong |-> week.wrong, partial |-> week.partial, accuracy |-> week.accuracy,
     bestCall |-> IF resp.bestCall # "" THEN resp.bestCall ELSE "N/A",
     worstCall |-> IF resp.worstCall # "" THEN resp.worstCall ELSE "N/A",
     lesson |-> IF resp.lesson # "" THEN resp.lesson ELSE "Keep refining analysis approach"]

\* a parser that gives up the whole answer when one of its REVIEW lines is malformed
NightlyCallsStrict(resp) ==
    IF \E k \in 1..Len(resp) : resp[k].kind = "review" /\ ~MatchesReview(resp[k])
    THEN <<>>
    ELSE (IF Len(ParseUpdates(resp, 1)) > 0
          THEN <<Call("batchUpdateOutcomes", ParseUpdates(resp, 1))>> ELSE <<>>)
         \o (IF Len(LessonMatch(resp)) > 0
             THEN <<Call("addStrategyNote", LessonMatch(resp)[1])>> ELSE <<>>)

\* nightlyReview between `await askClaude` and `await postToChannel`
NightlyCalls(resp) ==
    LET updates == ParseUpdates(resp, 1)
        lesson == LessonMatch(resp)
    IN  (IF Len(updates) > 0 THEN <<Call("batchUpdateOutcomes", updates)>> ELSE <<>>)
        \o (IF Len(lesson) > 0 THEN <<Call("addStrategyNote", lesson[1])>> ELSE <<>>)

\* the calls of a job between `await askClaude` and `await postToChannel`
AfterAsk(j, resp) ==
    CASE j.name = "nightly-review" -> NightlyCalls(resp)
      [] j.name = "weekly-review" -> <<Call("recordWeeklyScore", WeeklyScore(j.week, resp))>>
      [] OTHER -> <<>>

\* the calls of a job after `await postToChannel`
AfterPost(j) ==
    CASE j.name = "nightly-review" ->
            <<Call("saveToBrain", <<"nightly-review", j.today>>), Call("markNightlyReview", 0)>>
      [] j.name = "weekly-review" ->
            <<Call("saveToBrain", <<"weekly-review", j.today>>), Call("exportWeeklySummary", 0),
              Call("runBrainMaintenance", 0), Call("markWeeklyReview", 0)>>
      [] OTHER ->
            <<Call("saveToBrain", <<ScanType(j.name), getTodayET>>)>>
            \o ScanCalls(j.scan, ScanType(j.name))

\* the positions of the exportWeeklySummary calls that ran
Exports(calls, failAt) ==
    {k \in 1..Len(calls) : calls[k].op = "exportWeeklySummary" /\ (failAt = 0 \/ k < failAt)}

\* exportWeeklySummary catches its own errors: it cannot be the call that throws
CanThrow(calls, failAt) ==
    IF failAt = 0 THEN TRUE ELSE calls[failAt].op # "exportWeeklySummary"

-----------------------------------------------------------------------------
(* The job steps *)

\* `await buildWatchlistContext(tickers)` returns
ContextDone(j) ==
    /\ j.pc = "ctx"
    /\ jobs' = (jobs \ {j}) \cup {[j EXCEPT !.pc = "ask"]}
    /\ last' = Step("context", j.name, j.today)
    /\ UNCHANGED <<snapshot, ticked, tickNo, now, ms, etOffset, brain, apiCalls, perf, ranToday, alive, created, dispatched, marks, failed>>

\* `await buildWatchlistContext(tickers)` throws: it stands before the try block
ContextFail(j) ==
    /\ j.pc = "ctx"
    /\ jobs' = jobs \ {j}
    /\ alive' = (alive /\ unhandledRejection)
    /\ failed' = TRUE
    /\ last' = Step("contextFail", j.name, j.today)
    /\ UNCHANGED <<snapshot, ticked, tickNo, now, ms, etOffset, brain, apiCalls, perf, ranToday, created, dispatched, marks>>

\* a catch block that clears the day's mark and what the job had persisted
AskFailUnmark(j) ==
    /\ j.pc = "ask"
    /\ jobs' = jobs \ {j}
    /\ ranToday' = [ranToday EXCEPT ![j.name] = NoDate]
    /\ failed' = TRUE
    /\ last' = Step("askFail", j.name, j.today)
    /\ UNCHANGED <<snapshot, ticked, tickNo, now, ms, etOffset, brain, apiCalls, perf, alive, created, dispatched, marks>>

\* `await askClaude(prompt)` throws: the catch block logs, the job ends
AskFail(j) ==
    /\ j.pc = "ask"
    /\ jobs' = jobs \ {j}
    /\ failed' = TRUE
    /\ last' = Step("askFail", j.name, j.today)
    /\ UNCHANGED <<snapshot, ticked, tickNo, now, ms, etOffset, brain, apiCalls, perf, ranToday, alive, created, dispatched, marks>>

\* `await askClaude(prompt)` returns resp; the job runs on to `await postToChannel`.
\* heard is what the step history keeps of the answer.
AskDoneAs(j, resp, scan, failAt, heard) ==
    LET calls == AfterAsk(j, resp)
    IN  /\ j.pc = "ask"
        /\ failAt <= Len(calls)
        /\ perf' = Written(perf, calls, failAt)
        /\ jobs' = (jobs \ {j}) \cup
                (IF failAt = 0 THEN {[j EXCEPT !.pc = "post", !.scan = scan]} ELSE {})
        /\ failed' = (failed \/ failAt # 0)
        /\ last' = [Step(IF failAt = 0 THEN "askDone" ELSE "writeFail", j.name, j.today)
                        EXCEPT !.heard = heard]
        /\ UNCHANGED <<snapshot, ticked, tickNo, now, ms, etOffset, brain, apiCalls, ranToday, alive, created, dispatched, marks>>

AskDone(j, resp, scan, failAt) == AskDoneAs(j, resp, scan, failAt, <<>>)

\* responses, weekly and scans are the answers the collaborator may give
AskDoneAny(j, responses, weekly, scans) ==
    \/ /\ j.name = "nightly-review"
       /\ \E resp \in responses, failAt \in 0..2 : AskDone(j, resp, <<>>, failAt)
    \/ /\ j.name = "weekly-review"
       /\ \E resp \in weekly, failAt \in 0..1 : AskDone(j, resp, <<>>, failAt)
    \/ /\ j.name \in {"morning", "eod"}
       /\ \E scan \in scans : created + Len(scan) <= MaxRecs /\ AskDone(j, <<>>, scan, 0)

\* a channel.send of postToChannel throws
PostFail(j) ==
    /\ j.pc = "post"
    /\ jobs' = jobs \ {j}
    /\ failed' = TRUE
    /\ last' = Step("postFail", j.name, j.today)
    /\ UNCHANGED <<snapshot, ticked, tickNo, now, ms, etOffset, brain, apiCalls, perf, ranToday, alive, created, dispatched, marks>>

\* postToChannel returns; the job runs to its end (an export that fails inside
\* its own try/catch is drawn by ExportCall)
PostDone(j, failAt) ==
    LET calls == AfterPost(j)
    IN  /\ j.pc = "post"
        /\ failAt <= Len(calls)
        /\ CanThrow(calls, failAt)
        /\ perf' = Written(perf, calls, failAt)
        /\ created' = created + Recorded(calls, failAt)
        /\ brain' = brain \cup Saved(calls, failAt)
        /\ jobs' = jobs \ {j}
        /\ failed' = (failed \/ failAt # 0)
        /\ snapshot' = IF Exports(calls, failAt) = {} THEN snapshot
                       ELSE exportWeeklySummary(
                                RunCalls(loadPerformance(perf), calls, 1,
                                         CHOOSE k \in Exports(calls, failAt) : TRUE))
        /\ last' = Step(IF failAt = 0 THEN "done" ELSE "writeFail", j.name, j.today)
        /\ UNCHANGED <<ticked, tickNo, now, ms, etOffset, apiCalls, ranToday, alive, dispatched, marks>>

JobStep(responses, weekly, scans) ==
    /\ alive
    /\ \E j \in jobs :
        \/ ContextDone(j)
        \/ ContextFail(j)
        \/ AskFail(j)
        \/ AskDoneAny(j, responses, weekly, scans)
        \/ PostFail(j)
        \/ \E failAt \in 0..4 : PostDone(j, failAt)

-----------------------------------------------------------------------------
(* Command handlers *)

\* commands/options.ts, handleOptions after its awaits: the knowledge file and the
\* recommendation are dated with the UTC date; the handler's catch block takes a
\* failing write (failAt = 1: saveToBrain throws, failAt = 2: recordRecommendation)
OptionsCommand(ticker, direction, failAt) ==
    LET calls == <<Call("saveToBrain", <<"options", utcToday>>),
                   Call("recordRecommendation",
                        [date |-> utcToday, ticker |-> ticker, direction |-> direction,
                         confidence |-> 60, type |-> "options", summary |-> "options play"])>>
    IN  /\ alive
        /\ created < MaxRecs
        /\ perf' = Written(perf, calls, failAt)
        /\ created' = created + Recorded(calls, failAt)
        /\ brain' = brain \cup Saved(calls, failAt)
        /\ last' = Step(IF failAt = 0 THEN "record" ELSE "writeFail", "options", utcToday)
        /\ UNCHANGED <<snapshot, ticked, tickNo, now, ms, etOffset, apiCalls, ranToday, jobs, alive,
                       dispatched, marks, failed>>

\* a caller of the exported updateOutcome; the write happens only when the id is found
UpdateOutcomeCall(id, outcome, notes, writeOk) ==
    LET found == FindIndex(loadPerformance(perf).recommendations, id) # 0
        threw == found /\ ~writeOk
    IN  /\ alive
        /\ apiCalls < MaxCalls
        /\ perf' = IF found /\ writeOk THEN updateOutcome(loadPerformance(perf), id, outcome, notes)
                   ELSE perf
        /\ last' = Step(IF threw THEN "updateOutcomeFail" ELSE "updateOutcome", <<id>>, utcToday)
        /\ apiCalls' = apiCalls + 1
        /\ UNCHANGED <<snapshot, ticked, tickNo, now, ms, etOffset, brain, ranToday, jobs, alive, created,
                       dispatched, marks, failed>>

\* a caller of the exported batchUpdateOutcomes; it writes whatever the ids are
BatchUpdateCall(updates, writeOk) ==
    /\ alive
    /\ apiCalls < MaxCalls
    /\ perf' = IF writeOk THEN batchUpdateOutcomes(loadPerformance(perf), updates) ELSE perf
    /\ last' = Step(IF writeOk THEN "batchUpdateOutcomes" ELSE "batchUpdateOutcomesFail",
                    [k \in 1..Len(updates) |-> updates[k].id], utcToday)
    /\ apiCalls' = apiCalls + 1
    /\ UNCHANGED <<snapshot, ticked, tickNo, now, ms, etOffset, brain, ranToday, jobs, alive, created,
                   dispatched, marks, failed>>

\* the batches the model draws: up to MaxBatch updates, each naming the newest entry
\* or an id the ledger does not hold
SomeUpdates ==
    LET recs == loadPerformance(perf).recommendations
        ids == (IF Len(recs) = 0 THEN {} ELSE {recs[Len(recs)].id}) \cup {UnknownId}
    IN  {[id |-> id, outcome |-> "wrong", notes |-> "note"] : id \in ids}

SomeBatches == UNION {[1..n -> SomeUpdates] : n \in 0..MaxBatch}

-----------------------------------------------------------------------------
(* The clock *)

\* the next instant after `now` whose New York minute of the day is one of samples
NextSampleOf(samples) ==
    LET gap(m) == LET g == (m - etWall) % MinutesPerDay IN IF g = 0 THEN MinutesPerDay ELSE g
        g0 == CHOOSE g \in {gap(m) : m \in samples} :
                 \A m \in samples : g <= gap(m)
    IN  now + g0

NextSample == NextSampleOf(SampleMinutes)

\* The clock moves to the next sample once the interval callback has run at this
\* one.  slow: the awaits a job can still be waiting at when the clock moves on.
AdvanceSlow(samples, maxTicks, maxOverlap, slow) ==
    /\ ticked \/ ~alive
    /\ Cardinality(jobs) <= maxOverlap
    /\ \A j \in jobs : j.pc \in slow
    /\ tickNo < maxTicks
    /\ now' = NextSampleOf(samples)
    /\ ms' = 0
    /\ ticked' = FALSE
    /\ tickNo' = tickNo + 1
    /\ last' = Step("advance", "clock", getTodayET)
    /\ UNCHANGED <<snapshot, etOffset, brain, apiCalls, perf, ranToday, jobs, alive, created, dispatched, marks, failed>>

\* Only a call of the collaborator is slow enough to span two samples.
AdvanceIn(samples, maxTicks, maxOverlap) == AdvanceSlow(samples, maxTicks, maxOverlap, {"ask"})

Advance(maxTicks, maxOverlap) == AdvanceIn(SampleMinutes, maxTicks, maxOverlap)

AdvanceMs ==
    /\ ms < MaxMs
    /\ ms' = ms + 1
    /\ last' = Step("advance", "clock", getTodayET)
    /\ UNCHANGED <<snapshot, now, etOffset, brain, apiCalls, perf, ranToday, jobs, alive, ticked, tickNo, created, dispatched, marks, failed>>

-----------------------------------------------------------------------------
(* The running system *)

\* a document left by an earlier run of the process: two calls recorded by Wednesday's
\* scans (day 2, at 08:30 and 16:30 New York time) and scored by Wednesday's nightly
\* review, which marked the review with the UTC date of that instant (day 3)
SeededPerformance(offset) ==
    LET stamp(m) == (2 * MinutesPerDay + m + offset) * MsPerMinute
        rec(m, type, outcome) ==
            [id |-> MakeId(2, "AAPL", stamp(m)), date |-> 2, ticker |-> "AAPL",
             direction |-> "bullish", confidence |-> 50, type |-> type, summary |-> "scan",
             outcome |-> outcome, reviewedAt |-> stamp(1200), reviewNotes |-> "note"]
    IN  [defaultPerformance EXCEPT
            !.recommendations = <<rec(510, "morning-brief", "correct"),
                                  rec(990, "eod-recap", "wrong")>>,
            !.lastNightlyReview = 3]

InitAt(wall) ==
    /\ etOffset \in {EST, EDT}
    /\ now = wall + etOffset
    /\ ms = 0
    /\ perf \in {defaultPerformance, SeededPerformance(etOffset)}
    /\ ranToday = [t \in Tasks |-> NoDate]
    /\ jobs = {}
    /\ alive = TRUE
    /\ ticked = FALSE
    /\ tickNo = 1
    /\ created = 0
    /\ brain = {}
    /\ apiCalls = 0
    /\ dispatched = EmptyBag
    /\ marks = {}
    /\ failed = FALSE
    /\ snapshot = NoSnapshot
    /\ last = Step("start", "none", NoDate)

\* Friday evening: the end-of-day scan, the nightly review and the weekly review
Init == InitAt(StartWall)

Next ==
    \/ Tick
    \/ JobStep(Responses, WeeklyResponses, Scans)
    \/ Advance(MaxTicks, MaxOverlap)

Spec == Init /\ [][Next]_vars

\* Thursday afternoon to Saturday morning with a quiet collaborator: the window of
\* every task opens at least once
InitSched == InitAt(SchedStartWall)

NextSched ==
    \/ Tick
    \/ JobStep(QuietResponses, QuietWeekly, QuietScans)
    \/ Advance(SchedTicks, SchedOverlap)

SpecSched == InitSched /\ [][NextSched]_vars

\* Friday evening on a data directory whose performance.json is missing or cannot
\* be parsed
InitLoad ==
    /\ etOffset \in {EST, EDT}
    /\ now = StartWall + etOffset
    /\ ms = 0
    /\ perf \in {Missing, Unparseable}
    /\ ranToday = [t \in Tasks |-> NoDate]
    /\ jobs = {}
    /\ alive = TRUE
    /\ ticked = FALSE
    /\ tickNo = 1
    /\ created = 0
    /\ brain = {}
    /\ apiCalls = 0
    /\ dispatched = EmptyBag
    /\ marks = {}
    /\ failed = FALSE
    /\ snapshot = NoSnapshot
    /\ last = Step("start", "none", NoDate)

SpecLoad == InitLoad /\ [][Next]_vars

(* The store under its callers: a ledger left by earlier runs, the command      *)
(* handler and the two exported update calls.                                  *)
StoredLedger(n, offset) ==
    [i \in 1..n |->
        [id |-> MakeId(2, "AAPL", (2 * MinutesPerDay + 600 + offset) * MsPerMinute + i),
         date |-> 2, ticker |-> "AAPL", direction |-> "bullish", confidence |-> 60,
         type |-> "options", summary |-> "options play",
         outcome |-> IF i = 1 THEN "correct" ELSE Undefined,
         reviewedAt |-> IF i = 1 THEN (3 * MinutesPerDay) * MsPerMinute ELSE NoStamp,
         reviewNotes |-> IF i = 1 THEN "note" ELSE Undefined]]

InitStore ==
    /\ etOffset = EST
    /\ now = StoreWall + etOffset
    /\ ms = 0
    /\ \E n \in {0, RecCap - 1} :
          perf = [defaultPerformance EXCEPT !.recommendations = StoredLedger(n, etOffset)]
    /\ ranToday = [t \in Tasks |-> NoDate]
    /\ jobs = {}
    /\ alive = TRUE
    /\ ticked = TRUE
    /\ tickNo = 1
    /\ created = 0
    /\ brain = {}
    /\ apiCalls = 0
    /\ dispatched = EmptyBag
    /\ marks = {}
    /\ failed = FALSE
    /\ snapshot = NoSnapshot
    /\ last = Step("start", "none", NoDate)

NextStore ==
    \/ \E t \in Tickers, d \in Directions, failAt \in 0..2 : OptionsCommand(t, d, failAt)
    \/ \E id \in SomeIds, o \in Terminal, writeOk \in BOOLEAN :
            UpdateOutcomeCall(id, o, "note", writeOk)
    \/ \E updates \in SomeBatches, writeOk \in BOOLEAN : BatchUpdateCall(updates, writeOk)
    \/ AdvanceMs

SpecStore == InitStore /\ [][NextStore]_vars

(* The Friday evening reviews over a document left by earlier runs: the nightly *)
(* review at 20:00, the weekly review at 20:30, a second callback inside the    *)
(* weekly window at 20:33, and the process being restarted.  The clock moves on *)
(* when no job is in flight.                                                    *)
ReviewMinutes == {1200, 1230, 1233}

\* the outcomes of the calls scored so far this week: 11 correct, 1 partial, 8 wrong
SeedOutcomes ==
    [i \in 1..11 |-> "correct"] \o <<"partial">> \o [i \in 1..8 |-> "wrong"]

\* n calls recorded by the options command: the first ones on Tuesday (day 1), scored
\* on Wednesday evening, the others on Wednesday (day 2) and still pending
ReviewedLedger(n, offset) ==
    [i \in 1..n |->
        LET scored == i <= Len(SeedOutcomes)
            date == IF scored THEN 1 ELSE 2
        IN  [id |-> MakeId(date, "AAPL", (date * MinutesPerDay + 600 + offset) * MsPerMinute + i),
             date |-> date, ticker |-> "AAPL", direction |-> "bullish", confidence |-> 60,
             type |-> "options", summary |-> "options play",
             outcome |-> IF scored THEN SeedOutcomes[i] ELSE Undefined,
             reviewedAt |-> IF scored THEN (2 * MinutesPerDay + 1200 + offset) * MsPerMinute
                            ELSE NoStamp,
             reviewNotes |-> IF scored THEN "note" ELSE Undefined]]

\* the scores of the n weeks before this one, each written on a Friday at 20:30 New
\* York time with the UTC date of a week before that instant: a Saturday
SeedScores(n) ==
    [k \in 1..n |->
        [weekOf |-> 5 - 7 * (n - k + 2), totalCalls |-> 2, correct |-> 1, wrong |-> 1,
         partial |-> 0, accuracy |-> 50, bestCall |-> "N/A", worstCall |-> "N/A",
         lesson |-> "Keep refining analysis approach"]]

\* the notes of the n nightly reviews before this one, the last on Wednesday evening;
\* each carries the UTC date of its review: a Saturday, a Thursday or a Tuesday
SeedNotes(n) ==
    [k \in 1..n |->
        LET t == n - k + 1
        IN  <<(<<5, 3, 1>>)[(t % 3) + 1] - 7 * (t \div 3), "seed">>]

ReviewedDocument(offset, full) ==
    [recommendations |-> ReviewedLedger(Len(SeedOutcomes) + ReviewCap + 2, offset),
     weeklyScores |-> SeedScores(IF full THEN ScoreCap ELSE ScoreCap - 1),
     strategyNotes |-> SeedNotes(IF full THEN NoteCap ELSE NoteCap - 1),
     lastNightlyReview |-> 3,
     lastWeeklyReview |-> 5 - 7]

InitReview ==
    /\ etOffset \in {EST, EDT}
    /\ now = StoreWall + etOffset
    /\ ms = 0
    /\ perf \in {ReviewedDocument(etOffset, full) : full \in BOOLEAN}
    /\ ranToday = [t \in Tasks |-> NoDate]
    /\ jobs = {}
    /\ alive = TRUE
    /\ ticked = FALSE
    /\ tickNo = 1
    /\ created = 0
    /\ brain = {}
    /\ apiCalls = 0
    /\ dispatched = EmptyBag
    /\ marks = {}
    /\ failed = FALSE
    /\ snapshot = NoSnapshot
    /\ last = Step("start", "none", NoDate)

\* the lines of an answer to the enumerated list: REVIEW lines for its first two
\* ids, two of them malformed (a word outside the grammar, no notes), LESSON
\* lines and prose
HeardLines(listed) ==
    LET first == listed[1]
        second == listed[IF Len(listed) > 1 THEN 2 ELSE 1]
    IN  {ReviewLine(first, "correct", "note"), ReviewLine(first, "Skip", "note"),
         ReviewLine(second, "WRONG", "note"), ReviewLine(first, "pending", "note"),
         ReviewLine(second, "partial", ""), LessonLine("lesson a"), LessonLine("lesson b"),
         OtherLine}

HeardResponses(listed) == UNION {[1..n -> HeardLines(listed)] : n \in 0..MaxHeard}

\* `await askClaude(prompt)` returns in a review job and the document is written;
\* the step history keeps the answer
Hear(j) ==
    \/ /\ j.name = "nightly-review"
       /\ \E resp \in HeardResponses(j.listed) : AskDoneAs(j, resp, <<>>, 0, resp)
    \/ /\ j.name = "weekly-review"
       /\ \E resp \in WeeklyResponses : AskDoneAs(j, resp, <<>>, 0, resp)

\* the steps of the review jobs on a disk that takes every write
ReviewStep ==
    /\ alive
    /\ \E j \in jobs :
        \/ AskFail(j)
        \/ Hear(j)
        \/ PostFail(j)
        \/ PostDone(j, 0)

\* the idle process is stopped and started again: the module is loaded anew
\* (ranToday is an empty map), the document on disk stays, and the first interval
\* callback comes a minute after startScheduler
Restart ==
    /\ jobs = {}
    /\ \E t \in Tasks : ranToday[t] # NoDate
    /\ ranToday' = [t \in Tasks |-> NoDate]
    /\ jobs' = {}
    /\ alive' = TRUE
    /\ ticked' = TRUE
    /\ last' = Step("restart", "none", getTodayET)
    /\ UNCHANGED <<snapshot, now, ms, etOffset, brain, apiCalls, perf, tickNo, created, dispatched, marks,
                   failed>>

NextReview ==
    \/ Tick
    \/ ReviewStep
    \/ Restart
    \/ AdvanceIn(ReviewMinutes, ReviewTicks, 0)

SpecReview == InitReview /\ [][NextReview]_vars

-----------------------------------------------------------------------------
(* The scans of two consecutive days.  askClaude settles within                 *)
(* config.claude.timeout + 5 s; `await buildWatchlistContext(...)` and the       *)
(* `await channel.send(chunk)` of postToChannel have no timeout in the          *)
(* scheduler, so a job can still be waiting there at any later tick.            *)

\* New York minutes of the day at which SpecHang looks at the system
HangMinutes == {990, 993}

\* the awaits of a job that nothing in the scheduler bounds
Unbounded == {"ctx", "post"}

\* Thursday 16:30 New York time
InitHang == InitAt(SchedStartWall)

NextHang ==
    \/ Tick
    \/ JobStep(QuietResponses, QuietWeekly, Scans)
    \/ AdvanceSlow(HangMinutes, HangTicks, 1, Unbounded)

SpecHang == InitHang /\ [][NextHang]_vars

(* Two evenings in a row: the end-of-day scan (16:30) and the nightly review    *)
(* (20:00) of Thursday and of Friday, with a collaborator that scores nothing.  *)
NightMinutes == {990, 1200}

NextNights ==
    \/ Tick
    \/ JobStep(QuietResponses, QuietWeekly, Scans)
    \/ AdvanceIn(NightMinutes, HangTicks, 1)

SpecNights == InitHang /\ [][NextNights]_vars

-----------------------------------------------------------------------------
(* brain-manager.ts: the knowledge directory under maintenance.                 *)
(* A file is its name (prefix and embedded date), its modification time in      *)
(* UTC minutes and, for a weekly summary, the names of the members it was built *)
(* from.  The server's time zone is UTC (scheduler.ts, line 17), so the local   *)
(* getters of Date read the UTC fields.                                         *)

File(prefix, date, mtime) ==
    [prefix |-> prefix, dated |-> TRUE, date |-> date, mtime |-> mtime, parts |-> {}]

Name(f) == <<f.prefix, f.date>>

dailyPatterns == {"morning-brief", "eod-recap", "scan"}

analysisPatterns == {"analysis", "options", "sentiment"}

\* file.mtime >= new Date(now - days * 24 * 60 * 60 * 1000) is false
Aged(f, days) == f.mtime < now - days * MinutesPerDay

\* weekStart.setDate(weekStart.getDate() - weekStart.getDay() + 1) on the embedded
\* date d; getDay() is 0 on a Sunday ((d + 1) % 7 with day 0 a Monday)
WeekKey(d) == d - ((d + 1) % 7) + 1

\* the faults one call can meet: statSync or readdirSync throws (stat), readFileSync
\* throws on the named files, unlinkSync throws on the named files, writeFileSync
\* throws on the summaries of the named weeks
NoFault == [stat |-> FALSE, unreadable |-> {}, undeletable |-> {}, unwritable |-> {}]

\* the files the first loop of consolidateOldFiles does not skip
Candidates(dir) == {f \in dir : Aged(f, 7) /\ f.prefix \in dailyPatterns /\ f.dated}

\* weeklyGroups[weekKey] after the first loop: the candidates that could be read
Entries(candidates, key, fault) ==
    {f \in candidates : WeekKey(f.date) = key /\ Name(f) \notin fault.unreadable}

\* Object.entries(weeklyGroups): the keys in the order the first loop met them, the
\* files being sorted by modification time
RECURSIVE GroupOrder(_, _)
GroupOrder(candidates, keys) ==
    IF keys = {} THEN <<>>
    ELSE LET oldest == CHOOSE f \in candidates :
                           /\ WeekKey(f.date) \in keys
                           /\ \A g \in candidates : WeekKey(g.date) \in keys => f.mtime <= g.mtime
         IN  <<WeekKey(oldest.date)>> \o GroupOrder(candidates, keys \ {WeekKey(oldest.date)})

\* a second loop that does not look for an existing summary before it writes
RECURSIVE ConsolidateFromOverwrite(_, _, _, _, _)
ConsolidateFromOverwrite(keys, k, st, listed, fault) ==
    IF k > Len(keys) THEN st
    ELSE LET key == keys[k]
             entries == Entries(listed, key, fault)
             summary == [File("weekly-summary", key, now) EXCEPT
                            !.parts = {Name(f) : f \in entries}]
             unlinked == {f \in entries : Name(f) \notin fault.undeletable}
             kept == {f \in st.dir : Name(f) # Name(summary)}
         IN  IF Cardinality(entries) < 2
             THEN ConsolidateFromOverwrite(keys, k + 1, st, listed, fault)
             ELSE IF key \in fault.unwritable
             THEN [st EXCEPT !.threw = TRUE]
             ELSE ConsolidateFromOverwrite(keys, k + 1,
                      [st EXCEPT !.dir = (kept \ unlinked) \cup {summary},
                                 !.consolidated = @ + 1,
                                 !.deleted = @ + Cardinality(unlinked)],
                      listed, fault)

\* a second loop that counts a delete whether or not unlinkSync threw
RECURSIVE ConsolidateFromCountAll(_, _, _, _, _)
ConsolidateFromCountAll(keys, k, st, listed, fault) ==
    IF k > Len(keys) THEN st
    ELSE LET key == keys[k]
             entries == Entries(listed, key, fault)
             summaryExists == \E f \in st.dir : f.prefix = "weekly-summary" /\ f.date = key
             summary == [File("weekly-summary", key, now) EXCEPT
                            !.parts = {Name(f) : f \in entries}]
             unlinked == {f \in entries : Name(f) \notin fault.undeletable}
         IN  IF Cardinality(entries) < 2 \/ summaryExists
             THEN ConsolidateFromCountAll(keys, k + 1, st, listed, fault)
             ELSE IF key \in fault.unwritable
             THEN [st EXCEPT !.threw = TRUE]
             ELSE ConsolidateFromCountAll(keys, k + 1,
                      [st EXCEPT !.dir = (@ \ unlinked) \cup {summary},
                                 !.consolidated = @ + 1,
                                 !.deleted = @ + Cardinality(entries)],
                      listed, fault)

\* a second loop that unlinks every aged daily file of the week, read or not
RECURSIVE ConsolidateFromUnread(_, _, _, _, _)
ConsolidateFromUnread(keys, k, st, listed, fault) ==
    IF k > Len(keys) THEN st
    ELSE LET key == keys[k]
             entries == Entries(listed, key, fault)
             summaryExists == \E f \in st.dir : f.prefix = "weekly-summary" /\ f.date = key
             summary == [File("weekly-summary", key, now) EXCEPT
                            !.parts = {Name(f) : f \in entries}]
             unlinked == {f \in listed : WeekKey(f.date) = key /\ Name(f) \notin fault.undeletable}
         IN  IF Cardinality(entries) < 2 \/ summaryExists
             THEN ConsolidateFromUnread(keys, k + 1, st, listed, fault)
             ELSE IF key \in fault.unwritable
             THEN [st EXCEPT !.threw = TRUE]
             ELSE ConsolidateFromUnread(keys, k + 1,
                      [st EXCEPT !.dir = (@ \ unlinked) \cup {summary},
                                 !.consolidated = @ + 1,
                                 !.deleted = @ + Cardinality(unlinked)],
                      listed, fault)

\* the second loop of consolidateOldFiles from the k-th group on; listed is what
\* the first loop kept of getBrainFiles(), st the directory and the counters so far
RECURSIVE ConsolidateFrom(_, _, _, _, _)
ConsolidateFrom(keys, k, st, listed, fault) ==
    IF k > Len(keys) THEN st
    ELSE LET key == keys[k]
             entries == Entries(listed, key, fault)
             summaryExists == \E f \in st.dir : f.prefix = "weekly-summary" /\ f.date = key
             summary == [File("weekly-summary", key, now) EXCEPT
                            !.parts = {Name(f) : f \in entries}]
             unlinked == {f \in entries : Name(f) \notin fault.undeletable}
         IN  IF Cardinality(entries) < 2 \/ summaryExists
             THEN ConsolidateFrom(keys, k + 1, st, listed, fault)
             ELSE IF key \in fault.unwritable
             THEN [st EXCEPT !.threw = TRUE]
             ELSE ConsolidateFrom(keys, k + 1,
                      [st EXCEPT !.dir = (@ \ unlinked) \cup {summary},
                                 !.consolidated = @ + 1,
                                 !.deleted = @ + Cardinality(unlinked)],
                      listed, fault)

consolidateOldFiles(dir, fault) ==
    LET st0 == [dir |-> dir, consolidated |-> 0, deleted |-> 0, threw |-> FALSE]
        candidates == Candidates(dir)
        keys == {WeekKey(f.date) : f \in candidates}
    IN  IF fault.stat THEN [st0 EXCEPT !.threw = TRUE]
        ELSE ConsolidateFrom(GroupOrder(candidates, keys), 1, st0, candidates, fault)

\* a pruning that looks at the age only
pruneOldAnalysesAnyPrefix(dir, fault) ==
    LET unlinked == {f \in dir : Aged(f, 30) /\ Name(f) \notin fault.undeletable}
    IN  IF fault.stat THEN [dir |-> dir, pruned |-> 0, threw |-> TRUE]
        ELSE [dir |-> dir \ unlinked, pruned |-> Cardinality(unlinked), threw |-> FALSE]

\* a pruning that takes a file of exactly 30 days
pruneOldAnalysesInclusive(dir, fault) ==
    LET unlinked == {f \in dir : /\ f.mtime <= now - 30 * MinutesPerDay
                                 /\ f.prefix \in analysisPatterns
                                 /\ Name(f) \notin fault.undeletable}
    IN  IF fault.stat THEN [dir |-> dir, pruned |-> 0, threw |-> TRUE]
        ELSE [dir |-> dir \ unlinked, pruned |-> Cardinality(unlinked), threw |-> FALSE]

pruneOldAnalyses(dir, fault) ==
    LET unlinked == {f \in dir : /\ Aged(f, 30)
                                 /\ f.prefix \in analysisPatterns
                                 /\ Name(f) \notin fault.undeletable}
    IN  IF fault.stat THEN [dir |-> dir, pruned |-> 0, threw |-> TRUE]
        ELSE [dir |-> dir \ unlinked, pruned |-> Cardinality(unlinked), threw |-> FALSE]

\* saveToBrain: writeFileSync creates the file or replaces it, and stamps it
saveToBrain(dir, prefix, date) ==
    {f \in dir : Name(f) # <<prefix, date>>} \cup {File(prefix, date, now)}

\* New York minutes of the day at which SpecBrain looks at the directory: the
\* weekly review (Friday 20:30) and the maintenance (Saturday 09:00) run it
BrainMinutes == {540, 1230}

\* The files a directory of SpecBrain is drawn from (day 0 is the Monday of the
\* current week, the first call is made on Friday, day 4, at 20:30 New York time):
\* Tuesday's brief and Wednesday's recap of last week; a scan dated the Sunday
\* before last week; Friday's recap of the week before last; a recap dated the
\* Tuesday of the week before last and rewritten last Friday at noon; a scan of
\* last Friday written at 02:40 UTC on the Saturday, which turns 7 days old
\* between the two instants; an analysis of 40 days ago, a sentiment file of 20
\* days ago, a brief of 41 days ago, an options file written 30 days before
\* the first instant to the minute, and scan notes of 9 days ago whose name
\* carries no date.
Pool ==
    {File("morning-brief", -6, -6 * MinutesPerDay + 810),
     File("eod-recap", -5, -5 * MinutesPerDay + 1290),
     File("scan", -8, -8 * MinutesPerDay + 600),
     File("eod-recap", -10, -10 * MinutesPerDay + 1290),
     File("eod-recap", -13, -3 * MinutesPerDay + 720),
     File("scan", -3, -2 * MinutesPerDay + 160),
     File("analysis", -40, -40 * MinutesPerDay + 600),
     File("sentiment", -20, -20 * MinutesPerDay + 600),
     File("morning-brief", -41, -41 * MinutesPerDay + 810),
     File("options", -26, -26 * MinutesPerDay + 1530),
     [File("scan", NoDate, -9 * MinutesPerDay + 600) EXCEPT !.dated = FALSE]}

\* the faults the model draws for one call that reads, writes and unlinks among
\* the files of touched: none, a failing listing, one unreadable file, up to
\* MaxFaults files that cannot be unlinked, one summary that cannot be written
Faults(touched) ==
    LET names == {Name(f) : f \in touched}
    IN  {NoFault, [NoFault EXCEPT !.stat = TRUE]}
        \cup {[NoFault EXCEPT !.unreadable = {n}] : n \in names}
        \cup {[NoFault EXCEPT !.undeletable = S] :
                 S \in {T \in SUBSET names : T # {} /\ Cardinality(T) <= MaxFaults}}
        \cup {[NoFault EXCEPT !.unwritable = {WeekKey(f.date)}] : f \in touched}

\* Friday 20:30 New York time (EST); the directory holds up to three files of Pool
InitBrain ==
    /\ etOffset = EST
    /\ now = 4 * MinutesPerDay + 1230 + etOffset
    /\ ms = 0
    /\ perf = defaultPerformance
    /\ ranToday = [t \in Tasks |-> NoDate]
    /\ jobs = {}
    /\ alive = TRUE
    /\ ticked = FALSE
    /\ tickNo = 1
    /\ created = 0
    /\ brain \in {S \in SUBSET Pool : Cardinality(S) <= 3}
    /\ apiCalls = 0
    /\ dispatched = EmptyBag
    /\ marks = {}
    /\ failed = FALSE
    /\ snapshot = NoSnapshot
    /\ last = Step("start", "none", NoDate)

\* a direct call of an exported function of brain-manager.ts or of saveToBrain
Called(op, result) ==
    /\ apiCalls < MaxRuns
    /\ apiCalls' = apiCalls + 1
    /\ last' = [op |-> op, task |-> result, day |-> now, heard |-> <<>>]
    /\ UNCHANGED <<snapshot, now, ms, etOffset, perf, ranToday, jobs, alive, ticked, tickNo, created,
                   dispatched, marks, failed>>

ConsolidateCall ==
    \E fault \in Faults(Candidates(brain)) :
        LET r == consolidateOldFiles(brain, fault)
        IN  /\ brain' = r.dir
            /\ Called("consolidateOldFiles",
                      [consolidated |-> r.consolidated, deleted |-> r.deleted,
                       threw |-> r.threw, fault |-> fault])

PruneCall ==
    \E fault \in {f \in Faults({g \in brain : g.prefix \in analysisPatterns}) :
                      f.unreadable = {} /\ f.unwritable = {}} :
        LET r == pruneOldAnalyses(brain, fault)
        IN  /\ brain' = r.dir
            /\ Called("pruneOldAnalyses",
                      [pruned |-> r.pruned, threw |-> r.threw, fault |-> fault])

\* a scan of today is saved, or an old daily file is written again
SaveCall ==
    \E n \in {Name(f) : f \in Candidates(brain)} \cup {<<"scan", utcToday>>} :
        /\ brain' = saveToBrain(brain, n[1], n[2])
        /\ Called("saveToBrain", n)

\* time passes with no call in between
Pass ==
    /\ tickNo < 2
    /\ now' = NextSampleOf(BrainMinutes)
    /\ tickNo' = tickNo + 1
    /\ UNCHANGED <<snapshot, ms, etOffset, perf, brain, ranToday, jobs, alive, ticked, created, apiCalls,
                   dispatched, marks, failed, last>>

NextBrain ==
    \/ ConsolidateCall
    \/ PruneCall
    \/ SaveCall
    \/ Pass

SpecBrain == InitBrain /\ [][NextBrain]_vars

(* Maintenance run after run on a directory nobody else writes to: at most     *)
(* MaxRuns calls of consolidateOldFiles in which some unlinkSync throws, then    *)
(* runs in which every read, write and unlink succeeds.                         *)

\* a call of consolidateOldFiles in which nothing fails but some unlinkSync
DeleteFails ==
    \E fault \in {f \in Faults(Candidates(brain)) :
                      f.undeletable # {} /\ f = [NoFault EXCEPT !.undeletable = f.undeletable]} :
        LET r == consolidateOldFiles(brain, fault)
        IN  /\ brain' = r.dir
            /\ Called("consolidateOldFiles",
                      [consolidated |-> r.consolidated, deleted |-> r.deleted,
                       threw |-> r.threw, fault |-> fault])

\* the interval callback of a Saturday morning runs consolidateOldFiles();
\* pruneOldAnalyses(); and no call fails
runBrainMaintenance ==
    LET c == consolidateOldFiles(brain, NoFault)
        p == pruneOldAnalyses(c.dir, NoFault)
    IN  /\ ~ticked
        /\ ticked' = TRUE
        /\ brain' = p.dir
        /\ last' = [op |-> "runBrainMaintenance",
                    task |-> [consolidated |-> c.consolidated, deleted |-> c.deleted,
                              pruned |-> p.pruned],
                    day |-> now, heard |-> <<>>]
        /\ UNCHANGED <<snapshot, now, ms, etOffset, perf, ranToday, jobs, alive, tickNo,
                       created, apiCalls, dispatched, marks, failed>>

\* the next maintenance is due
NextSaturday ==
    /\ ticked
    /\ ticked' = FALSE
    /\ UNCHANGED <<snapshot, now, ms, etOffset, perf, brain, ranToday, jobs, alive, tickNo,
                   created, apiCalls, dispatched, marks, failed, last>>

NextMaint ==
    \/ DeleteFails
    \/ runBrainMaintenance
    \/ NextSaturday
    \/ Pass

\* setInterval keeps calling the callback: the next Saturday comes
SpecMaint == InitBrain /\ [][NextMaint]_vars /\ WF_vars(NextSaturday)

(* The nightly review night after night: a week that repeats, one look at the  *)
(* system at 20:00 New York time every day, a ledger of 16 pending               *)
(* recommendations of an earlier week and nothing new recorded.                  *)
WeekMinutes == 7 * MinutesPerDay

\* the repeating week is the one after the week the recommendations were made in
CycleStart == WeekMinutes

\* the ids the review in hand has listed: pending.slice(0, 15)
ListedNow == Ids(SliceFirst(getPendingReviews(loadPerformance(perf)), ReviewCap))

\* the answers of the collaborator: every listed recommendation is skipped, or
\* every one is scored
StarveResponses ==
    {[i \in 1..Len(ListedNow) |-> ReviewLine(ListedNow[i], w, "note")] : w \in {"Skip", "wrong"}}

\* Monday 20:00 New York time
InitStarve ==
    /\ etOffset = EST
    /\ now = CycleStart + 1200 + etOffset
    /\ ms = 0
    /\ perf = [defaultPerformance EXCEPT !.recommendations = StoredLedger(ReviewCap + 2, etOffset)]
    /\ ranToday = [t \in Tasks |-> NoDate]
    /\ jobs = {}
    /\ alive = TRUE
    /\ ticked = FALSE
    /\ tickNo = 1
    /\ created = 0
    /\ brain = {}
    /\ apiCalls = 0
    /\ dispatched = EmptyBag
    /\ marks = {}
    /\ snapshot = NoSnapshot
    /\ failed = FALSE
    /\ last = Step("start", "none", NoDate)

\* The clock moves to 20:00 of the next day once the callback has run and no job
\* is in flight; after Sunday comes the Monday of the same week again.  The
\* dispatch history is that of the day.
NextNight ==
    /\ ticked \/ ~alive
    /\ jobs = {}
    /\ now' = CycleStart + ((NextSampleOf({1200}) - CycleStart) % WeekMinutes)
    /\ ticked' = FALSE
    /\ dispatched' = EmptyBag
    /\ marks' = {}
    /\ last' = Step("advance", "clock", getTodayET)
    /\ UNCHANGED <<ms, etOffset, perf, brain, ranToday, jobs, alive, tickNo, created, apiCalls,
                   snapshot, failed>>

NextStarve ==
    \/ Tick
    \/ JobStep(StarveResponses, QuietWeekly, QuietScans)
    \/ NextNight

\* setInterval keeps calling the callback, and every await of a job returns or throws
SpecStarve == InitStarve /\ [][NextStarve]_vars /\ WF_vars(NextStarve)

(* The export under its callers: a performance document left by earlier runs,  *)
(* a snapshot left by an earlier export, direct calls of exportWeeklySummary    *)
(* and of the store between them.                                              *)

\* the documents an export starts from: no, 3 or 25 recommendations (20 of them
\* scored), no or 6 strategy notes, no or 2 weekly scores
ExportDocuments ==
    {[defaultPerformance EXCEPT !.recommendations = ReviewedLedger(n, EST),
                                !.strategyNotes = SeedNotes(k),
                                !.weeklyScores = SeedScores(w)] :
        n \in {0, 3, 25}, k \in {0, 6}, w \in {0, 2}}

\* a snapshot written three weeks earlier from a document that has since changed
StaleSnapshot ==
    [generated |-> (-17 * MinutesPerDay + 90) * MsPerMinute,
     reviewed |-> 1, accuracy |-> 0, correct |-> 0, wrong |-> 1, partial |-> 0,
     lastWeek |-> <<-30, 0>>, lesson |-> <<"an older lesson">>,
     notes |-> <<<<-18, "an older note">>>>,
     recs |-> <<[date |-> -18, direction |-> "bearish", ticker |-> "MSFT", confidence |-> 70,
                 outcome |-> "wrong", summary |-> "an older call"]>>]

\* Friday 20:30 New York time (EST); the knowledge directory is empty or holds
\* Thursday's recap
InitExport ==
    /\ etOffset = EST
    /\ now = 4 * MinutesPerDay + 1230 + etOffset
    /\ ms = 0
    /\ perf \in ExportDocuments \cup {Missing}
    /\ ranToday = [t \in Tasks |-> NoDate]
    /\ jobs = {}
    /\ alive = TRUE
    /\ ticked = TRUE
    /\ tickNo = 1
    /\ created = 0
    /\ brain \in {{}, {File("eod-recap", 3, 3 * MinutesPerDay + 1290)}}
    /\ apiCalls = 0
    /\ dispatched = EmptyBag
    /\ marks = {}
    /\ snapshot \in {NoSnapshot, StaleSnapshot}
    /\ failed = FALSE
    /\ last = Step("start", "none", NoDate)

\* an export without the try/catch: what throws inside it reaches the caller
ExportCallRaising ==
    \E ok \in BOOLEAN :
        /\ apiCalls < MaxRuns
        /\ apiCalls' = apiCalls + 1
        /\ snapshot' = IF ok THEN exportWeeklySummary(loadPerformance(perf)) ELSE snapshot
        /\ failed' = (failed \/ ~ok)
        /\ last' = [op |-> "exportWeeklySummary", task |-> ok, day |-> now, heard |-> <<>>]
        /\ UNCHANGED <<now, ms, etOffset, perf, brain, ranToday, jobs, alive, ticked, tickNo,
                       created, dispatched, marks>>

\* a direct call of exportWeeklySummary; ok: nothing inside its try block throws
ExportCall ==
    \E ok \in BOOLEAN :
        /\ apiCalls < MaxRuns
        /\ apiCalls' = apiCalls + 1
        /\ snapshot' = IF ok THEN exportWeeklySummary(loadPerformance(perf)) ELSE snapshot
        /\ last' = [op |-> "exportWeeklySummary", task |-> ok, day |-> now, heard |-> <<>>]
        /\ UNCHANGED <<now, ms, etOffset, perf, brain, ranToday, jobs, alive, ticked, tickNo,
                       created, dispatched, marks, failed>>

\* the store calls the model makes between two exports
ExportStoreCalls ==
    {Call("addStrategyNote", "lesson"),
     Call("recordWeeklyScore",
          [weekOf |-> utcDateAgo(7), totalCalls |-> 2, correct |-> 2, wrong |-> 0,
           partial |-> 0, accuracy |-> 100, bestCall |-> "best", worstCall |-> "N/A",
           lesson |-> "lesson"]),
     Call("recordRecommendation",
          [date |-> utcToday, ticker |-> "AAPL", direction |-> "bearish", confidence |-> 60,
           type |-> "options", summary |-> "options play"])}

\* a direct call of one store operation, its write succeeding
StoreCall ==
    \E c \in ExportStoreCalls :
        /\ apiCalls < MaxRuns
        /\ apiCalls' = apiCalls + 1
        /\ perf' = Written(perf, <<c>>, 0)
        /\ created' = created + Recorded(<<c>>, 0)
        /\ last' = [op |-> c.op, task |-> "store", day |-> now, heard |-> <<>>]
        /\ UNCHANGED <<now, ms, etOffset, brain, ranToday, jobs, alive, ticked, tickNo, dispatched,
                       marks, snapshot, failed>>

NextExport ==
    \/ ExportCall
    \/ StoreCall
    \/ AdvanceMs

SpecExport == InitExport /\ [][NextExport]_vars

-----------------------------------------------------------------------------
(* Properties *)

\* C1: for every task name and every New York calendar day the interval callback
\* dispatches the task's job at most once, whatever became of the job.
C1_AtMostOncePerDay ==
    \A p \in BagToSet(dispatched) : CopiesIn(p, dispatched) = 1

\* a later tick inside the morning window dispatches nothing while the morning job
\* dispatched earlier that day is still in flight
C1_Witness ==
    /\ last.op = "tick" /\ last.task = "none"
    /\ InWindow("morning")
    /\ <<"morning", getTodayET>> \in BagToSet(dispatched)
    /\ \E j \in jobs : j.name = "morning" /\ j.today = getTodayET

\* C8: hasRunToday(x) holds exactly when markRanToday(x) has been called on the
\* current New York date: false before the call, true after it until the date
\* changes, false on a later date until the next call; a mark of one name leaves
\* the answer for every other name as it was.
C8_GuardFollowsMarks ==
    \A x \in Tasks : hasRunToday(ranToday, x) <=> <<x, getTodayET>> \in marks

\* Friday: the end-of-day recap was marked on Thursday and is marked again today,
\* Thursday's nightly review mark no longer counts, the maintenance was never marked
C8_Witness ==
    /\ <<"eod", getTodayET - 1>> \in marks
    /\ <<"eod", getTodayET>> \in marks
    /\ hasRunToday(ranToday, "eod")
    /\ <<"nightly-review", getTodayET - 1>> \in marks
    /\ ~hasRunToday(ranToday, "nightly-review")
    /\ ~hasRunToday(ranToday, "maintenance")

\* C2: at every instant getPendingReviews returns no recommendation dated the
\* current New York calendar date or later, and no listed recommendation is handed
\* to a nightly review dispatched on the New York date it carries.
C2_NoSameDayPending ==
    /\ \A i \in 1..Len(getPendingReviews(perf)) :
            getPendingReviews(perf)[i].date < getTodayET
    /\ \A j \in jobs : j.name = "nightly-review" =>
            \A k \in 1..Len(j.listed) : j.listed[k][1] < j.today

\* C5: a recommendation whose outcome is correct, wrong or partial keeps a terminal
\* outcome through every step (a nightly review with any response, skip and pending
\* lines included, an update call, an eviction of older entries): as long as the
\* entry is in the ledger its outcome is one of the three terminal values.
C5_TerminalStays ==
    [][LET recs == perf.recommendations
           shift == Len(recs) + (created' - created) - Len(perf'.recommendations)
       IN  \A i \in 1..Len(recs) :
              (recs[i].outcome \in Terminal /\ i - shift >= 1) =>
                  /\ perf'.recommendations[i - shift].id = recs[i].id
                  /\ perf'.recommendations[i - shift].outcome \in Terminal]_vars

\* Friday's nightly review has rewritten the outcome Wednesday's review gave to the
\* oldest entry: it was correct and is now another terminal value
C5_Witness ==
    /\ last.op = "askDone" /\ last.task = "nightly-review"
    /\ Len(perf.recommendations) >= 1
    /\ perf.recommendations[1].date = 2
    /\ perf.recommendations[1].outcome \in Terminal \ {"correct"}
    /\ perf.recommendations[1].reviewedAt = DateNow

\* C6: when the collaborator call of a nightly or weekly review fails, that step
\* changes nothing of the performance document (outcomes, weekly scores, strategy
\* notes, last-review dates) and no knowledge file, starts no new job, and leaves
\* the day marks as they are; the task stays dispatched exactly once for its day.
C6_AskFailureLeavesState ==
    [][(last'.op = "askFail" /\ last'.task \in {"nightly-review", "weekly-review"}) =>
          /\ perf' = perf
          /\ brain' = brain
          /\ ranToday' = ranToday
          /\ ranToday'[last'.task] = last'.day
          /\ jobs' \subseteq jobs
          /\ dispatched' = dispatched
          /\ CopiesIn(<<last'.task, last'.day>>, dispatched') = 1]_vars

\* the weekly review's collaborator call has just failed and the weekly guard is
\* still marked for today
C6_Witness ==
    /\ last.op = "askFail" /\ last.task = "weekly-review"
    /\ hasRunToday(ranToday, "weekly-review")
    /\ perf.weeklyScores = <<>>
    /\ perf.lastWeeklyReview # utcToday

\* C7: whatever job has failed, the process and its interval callback stay alive,
\* and once the callback has run at an instant every task whose window is open has
\* been dispatched for the day.
C7_LoopSurvives ==
    /\ alive
    /\ ticked => \A t \in Tasks : InWindow(t) => <<t, getTodayET>> \in BagToSet(dispatched)

\* a job has failed earlier and the callback has just dispatched the morning brief
C7_Witness ==
    /\ failed
    /\ last.op = "tick" /\ last.task = "morning"
    /\ \E j \in jobs : j.name = "morning" /\ j.today = getTodayET

\* C3: after any sequence of recordRecommendation calls, calls with the same date
\* and ticker at an unchanged clock value included, no two entries of the ledger
\* have the same id.
C3_UniqueIds ==
    \A i, j \in 1..Len(perf.recommendations) :
        i # j => perf.recommendations[i].id # perf.recommendations[j].id

\* C4: the ledger never holds more than 200 entries, and a recordRecommendation call
\* on a ledger of length n < 200 gives length n + 1 with the old entries in place and
\* the new entry last, on a ledger of length 200 gives length 200 with the oldest
\* entry dropped, the others moved up by one and the new entry last.
C4_CappedAppend ==
    /\ [](Len(perf.recommendations) <= RecCap)
    /\ [][created' = created + 1 =>
            LET old == perf.recommendations
                new == perf'.recommendations
                n == Len(old)
            IN  /\ Len(new) = (IF n < RecCap THEN n + 1 ELSE RecCap)
                /\ new[Len(new)].id[3] = toString36(DateNow)
                /\ new[Len(new)].outcome = Undefined
                /\ \A k \in 1..(Len(new) - 1) :
                        new[k] = old[IF n < RecCap THEN k ELSE k + 1]]_vars

\* two calls were recorded on a ledger of 199: the second found it at 200 and the
\* entry that was second oldest is now the oldest
C4_Witness ==
    /\ created = 2
    /\ last.op = "record"
    /\ Len(perf.recommendations) = RecCap
    /\ perf.recommendations[1].id = StoredLedger(2, etOffset)[2].id

\* C9: an updateOutcome or batchUpdateOutcomes call that names an id the ledger does
\* not hold raises no error for it (updateOutcome never fails on such an id; the
\* one failure of a batch is that the document cannot be written) and changes no
\* entry for it; in a batch the first entry of every known id gets the outcome, the
\* notes and the time of the call, and every entry that is not named stays as it was.
C9_UnknownIdsIgnored ==
    [][LET old == perf.recommendations
           new == perf'.recommendations
           ids == {last'.task[k] : k \in 1..Len(last'.task)}
           known == {id \in ids : \E i \in 1..Len(old) : old[i].id = id}
       IN  /\ (apiCalls' = apiCalls + 1 /\ last'.op = "updateOutcomeFail") => known # {}
           /\ (apiCalls' = apiCalls + 1
                /\ last'.op \in {"updateOutcome", "batchUpdateOutcomes"}) =>
                 /\ Len(new) = Len(old)
                 /\ known = {} => perf' = perf
                 /\ \A i \in 1..Len(old) : old[i].id \notin ids => new[i] = old[i]
                 /\ \A id \in known :
                        LET i == CHOOSE n \in 1..Len(old) :
                                    old[n].id = id /\ \A m \in 1..(n - 1) : old[m].id # id
                        IN  /\ new[i].outcome \in Terminal
                            /\ new[i].reviewedAt = DateNow
                            /\ new[i].reviewNotes = "note"]_vars

\* a batch has just named the newest entry and an id the ledger does not hold: the
\* newest entry carries the outcome and the time of the call
C9_Witness ==
    /\ last.op = "batchUpdateOutcomes"
    /\ Len(last.task) = 2
    /\ UnknownId \in {last.task[1], last.task[2]}
    /\ Len(perf.recommendations) >= 2
    /\ perf.recommendations[Len(perf.recommendations)].id \in {last.task[1], last.task[2]}
    /\ perf.recommendations[Len(perf.recommendations)].outcome = "wrong"
    /\ perf.recommendations[Len(perf.recommendations)].reviewedAt = DateNow
    /\ perf.recommendations[2].outcome = Undefined

\* C10: an updateOutcome or batchUpdateOutcomes call changes nothing but outcome,
\* reviewedAt and reviewNotes of entries whose id it names: id, date, ticker,
\* direction, confidence, type and summary of every entry, the order and length of
\* the ledger, weeklyScores, strategyNotes and the last-review dates stay as they were.
C10_UpdateFrame ==
    [][apiCalls' = apiCalls + 1 =>
          LET old == perf.recommendations
              new == perf'.recommendations
              ids == {last'.task[k] : k \in 1..Len(last'.task)}
          IN  /\ Len(new) = Len(old)
              /\ \A i \in 1..Len(old) :
                    \/ new[i] = old[i]
                    \/ /\ old[i].id \in ids
                       /\ new[i] = [old[i] EXCEPT !.outcome = new[i].outcome,
                                                  !.reviewedAt = new[i].reviewedAt,
                                                  !.reviewNotes = new[i].reviewNotes]
              /\ perf'.weeklyScores = perf.weeklyScores
              /\ perf'.strategyNotes = perf.strategyNotes
              /\ perf'.lastNightlyReview = perf.lastNightlyReview
              /\ perf'.lastWeeklyReview = perf.lastWeeklyReview]_vars

\* updateOutcome has just rewritten the oldest entry of a full ledger
C10_Witness ==
    /\ last.op = "updateOutcome"
    /\ Len(perf.recommendations) = RecCap
    /\ last.task[1] = perf.recommendations[1].id
    /\ perf.recommendations[1].reviewedAt = DateNow
    /\ perf.recommendations[1].outcome = "partial"
    /\ perf.recommendations[1].summary = "options play"

\* the lines of resp that score id: REVIEW lines with its id, one of the words
\* correct, wrong, partial in any case, and notes
Scoring(resp, id) ==
    {k \in 1..Len(resp) : /\ resp[k].kind = "review"
                          /\ resp[k].id = id
                          /\ toLowerCase(resp[k].word) \in Terminal
                          /\ resp[k].text # ""}

ScoringLines(resp) ==
    {k \in 1..Len(resp) : /\ resp[k].kind = "review"
                          /\ toLowerCase(resp[k].word) \in Terminal
                          /\ resp[k].text # ""}

LessonLines(resp) == {k \in 1..Len(resp) : resp[k].kind = "lesson"}

Largest(S) == CHOOSE k \in S : \A h \in S : h <= k
Smallest(S) == CHOOSE k \in S : \A h \in S : k <= h

\* C11: whatever the collaborator answers, the nightly review hands over exactly one
\* outcome update per line `REVIEW: [id] | outcome | notes` whose outcome is correct,
\* wrong or partial in any case, and none for a skip line: every entry takes the
\* outcome and notes of the last such line naming it, an entry no such line names
\* (one named only in skip lines included) is left as it is, so a pending one stays
\* pending and in the list of pending reviews; and at most one strategy note is
\* added, with the text of the first LESSON line.
C11_OneUpdatePerLine ==
    [][(last'.op = "askDone" /\ last'.task = "nightly-review") =>
        LET resp == last'.heard
            old == perf.recommendations
            new == perf'.recommendations
            lessons == LessonLines(resp)
            stillPending == Ids(getPendingReviews(perf'))
        IN  /\ Len(ParseUpdates(resp, 1)) = Cardinality(ScoringLines(resp))
            /\ Len(new) = Len(old)
            /\ \A i \in 1..Len(old) :
                  LET hits == Scoring(resp, old[i].id)
                  IN  IF hits = {}
                      THEN /\ new[i] = old[i]
                           /\ old[i].outcome = Undefined =>
                                 \E k \in 1..Len(stillPending) : stillPending[k] = old[i].id
                      ELSE new[i] = [old[i] EXCEPT
                                        !.outcome = toLowerCase(resp[Largest(hits)].word),
                                        !.reviewedAt = DateNow,
                                        !.reviewNotes = resp[Largest(hits)].text]
            /\ perf'.strategyNotes =
                  IF lessons = {} THEN perf.strategyNotes
                  ELSE SliceLast(Append(perf.strategyNotes,
                                        <<utcToday, resp[Smallest(lessons)].text>>), NoteCap)]_vars

\* the answer scored the second listed call and skipped the first: the first is
\* still pending and listed for the next review, the second is wrong
C11_Witness ==
    /\ last.op = "askDone" /\ last.task = "nightly-review"
    /\ Len(last.heard) = 2
    /\ toLowerCase(last.heard[1].word) = "skip"
    /\ Scoring(last.heard, last.heard[1].id) = {}
    /\ Scoring(last.heard, last.heard[2].id) = {2}
    /\ \E i \in 1..Len(perf.recommendations) :
          /\ perf.recommendations[i].id = last.heard[1].id
          /\ perf.recommendations[i].outcome = Undefined
          /\ getPendingReviews(perf)[1].id = last.heard[1].id
    /\ \E i \in 1..Len(perf.recommendations) :
          /\ perf.recommendations[i].id = last.heard[2].id
          /\ perf.recommendations[i].outcome = "wrong"

\* the REVIEW lines of resp the grammar takes, and those it does not
WellFormedLines(resp) ==
    {k \in 1..Len(resp) : /\ resp[k].kind = "review"
                          /\ toLowerCase(resp[k].word) \in Terminal \cup {"skip"}
                          /\ resp[k].text # ""}

MalformedLines(resp) ==
    {k \in 1..Len(resp) : resp[k].kind = "review"} \ WellFormedLines(resp)

\* C12: an answer with no line of the review grammar, or with malformed REVIEW lines
\* among valid ones, does not abort the nightly review: the job goes on to post its
\* recap with no failure raised, an entry named only by malformed lines is
\* unchanged, an entry a valid line scores takes that outcome; and the review that
\* runs to its end has written its file and set lastNightlyReview.
C12_MalformedLinesIgnored ==
    [][/\ (/\ last'.op \in {"askDone", "writeFail"} /\ last'.task = "nightly-review"
           /\ \/ MalformedLines(last'.heard) # {}
              \/ WellFormedLines(last'.heard) = {}) =>
            LET resp == last'.heard
                old == perf.recommendations
                new == perf'.recommendations
            IN  /\ last'.op = "askDone"
                /\ failed' = failed /\ alive'
                /\ \E j \in jobs' : j.name = "nightly-review" /\ j.pc = "post"
                /\ Len(new) = Len(old)
                /\ \A i \in 1..Len(old) :
                      LET hits == Scoring(resp, old[i].id)
                      IN  IF hits = {} THEN new[i] = old[i]
                          ELSE /\ new[i].outcome = toLowerCase(resp[Largest(hits)].word)
                               /\ new[i].reviewNotes = resp[Largest(hits)].text
       /\ (last'.op = "done" /\ last'.task = "nightly-review") =>
            /\ perf'.lastNightlyReview = utcToday
            /\ <<"nightly-review", getTodayET>> \in brain'
            /\ \A j \in jobs' : j.name # "nightly-review"
            /\ failed' = failed]_vars

\* the answer held a REVIEW line without notes and a valid one: the call the valid
\* line names is correct, the job is about to post its recap
C12_Witness ==
    /\ last.op = "askDone" /\ last.task = "nightly-review"
    /\ MalformedLines(last.heard) # {}
    /\ \E k \in WellFormedLines(last.heard) :
          /\ last.heard[k].word = "correct"
          /\ \E i \in 1..Len(perf.recommendations) :
                /\ perf.recommendations[i].id = last.heard[k].id
                /\ perf.recommendations[i].outcome = "correct"
                /\ perf.recommendations[i].reviewedAt = DateNow
    /\ \E j \in jobs : j.name = "nightly-review" /\ j.pc = "post"

\* C13: when more than 15 recommendations are eligible, the list the nightly review
\* sends to the collaborator holds exactly the last 15 of them in ledger order (the
\* most recent), not the first 15.
C13_MostRecentFifteen ==
    [][\A j \in jobs' \ jobs :
          j.name = "nightly-review" =>
              LET pending == getPendingReviews(perf)
              IN  Len(pending) > ReviewCap =>
                      j.listed = Ids(SliceLast(pending, ReviewCap))]_vars

\* C14: a weekly review over n >= 2 scored recommendations of the trailing 7 days
\* whose collaborator call succeeds appends one WeeklyScore whose accuracy is
\* (correct + 0.5 * partial) / n * 100 rounded to the nearest integer (a half going
\* up): 1 correct and 1 wrong give 50.
C14_RoundedAccuracy ==
    [][(last'.op = "askDone" /\ last'.task = "weekly-review") =>
        LET scores == perf'.weeklyScores
            score == scores[Len(scores)]
            n == score.totalCalls
        IN  /\ Len(scores) = IF Len(perf.weeklyScores) < ScoreCap
                              THEN Len(perf.weeklyScores) + 1 ELSE ScoreCap
            /\ n >= 2
            /\ n = score.correct + score.wrong + score.partial
            /\ (2 * score.accuracy - 1) * n <= (2 * score.correct + score.partial) * 100
            /\ (2 * score.correct + score.partial) * 100 < (2 * score.accuracy + 1) * n]_vars

\* C15: a weekly review that produced a WeeklyScore has also appended the lesson of
\* that score (the extracted one or the fallback) to strategyNotes: when the review
\* has run to its end, strategyNotes holds a note with the lesson's text.
C15_LessonNoted ==
    [][(last'.op = "done" /\ last'.task = "weekly-review") =>
        LET scores == perf'.weeklyScores
            notes == perf'.strategyNotes
        IN  \E k \in 1..Len(notes) : notes[k][2] = scores[Len(scores)].lesson]_vars

\* C16: at most one WeeklyScore is created per week: a weekly review that runs again
\* on the local Friday on which one already completed (the persisted
\* lastWeeklyReview was written at this date, the day marks in memory having been
\* lost in a restart) appends no second WeeklyScore; and no step modifies an
\* existing WeeklyScore: weeklyScores changes only by an append at its end.
C16_OneScorePerWeek ==
    [][LET old == perf.weeklyScores
           new == perf'.weeklyScores
       IN  /\ \/ new = old
              \/ /\ Len(new) >= 1
                 /\ new = SliceLast(Append(old, new[Len(new)]), ScoreCap)
           /\ (/\ last'.op = "askDone" /\ last'.task = "weekly-review"
               /\ perf.lastWeeklyReview = utcToday) => new = old]_vars

\* C17: every WeeklyScore the weekly review appends (it runs in the Friday
\* 20:30-20:35 New York window) has as weekOf the date of a Monday (day numbers
\* count from a Monday, so a Monday is a multiple of 7).
C17_WeekOfMonday ==
    [][(last'.op = "askDone" /\ last'.task = "weekly-review") =>
        LET scores == perf'.weeklyScores
        IN  scores[Len(scores)].weekOf % 7 = 0]_vars

\* C18: in every reachable state weeklyScores has at most 52 entries and
\* strategyNotes at most 30; the weekly review that records its score and the
\* nightly review that heard a LESSON line append one entry at the end of the list,
\* and when the list was full the oldest entry is dropped and the others keep
\* their order; no other step changes either list.
C18_CapsKeepNewest ==
    /\ [](Len(perf.weeklyScores) <= ScoreCap /\ Len(perf.strategyNotes) <= NoteCap)
    /\ [][/\ LET old == perf.weeklyScores
                  new == perf'.weeklyScores
              IN  IF last'.op = "askDone" /\ last'.task = "weekly-review"
                  THEN /\ Len(new) >= 1
                       /\ new[Len(new)].weekOf = utcDateAgo(7)
                       /\ new = Append(IF Len(old) < ScoreCap THEN old ELSE Tail(old),
                                       new[Len(new)])
                  ELSE new = old
          /\ LET old == perf.strategyNotes
                  new == perf'.strategyNotes
              IN  IF /\ last'.op = "askDone" /\ last'.task = "nightly-review"
                     /\ LessonLines(last'.heard) # {}
                  THEN /\ Len(new) >= 1
                       /\ new[Len(new)][1] = utcToday
                       /\ new[Len(new)][2] \in {"lesson a", "lesson b"}
                       /\ new = Append(IF Len(old) < NoteCap THEN old ELSE Tail(old),
                                       new[Len(new)])
                  ELSE new = old]_vars

\* both lists were full: the weekly review's score and the nightly review's lesson
\* stand at the end, the oldest score and the oldest note are gone, the second
\* oldest are now the first
C18_Witness ==
    /\ Len(perf.weeklyScores) = ScoreCap
    /\ perf.weeklyScores[ScoreCap].weekOf = utcDateAgo(7)
    /\ perf.weeklyScores[1] = SeedScores(ScoreCap)[2]
    /\ Len(perf.strategyNotes) = NoteCap
    /\ perf.strategyNotes[NoteCap][2] = "lesson a"
    /\ perf.strategyNotes[1] = SeedNotes(NoteCap)[2]

\* what a recommendation is from its creation on: everything but its review
SameCall(a, b) ==
    /\ a.id = b.id /\ a.date = b.date /\ a.ticker = b.ticker /\ a.direction = b.direction
    /\ a.confidence = b.confidence /\ a.type = b.type /\ a.summary = b.summary

C20_NoLostUpdate ==
    [][LET by(task, ops) == last'.task = task /\ last'.op \in ops
           old == perf.recommendations
           new == perf'.recommendations
           k == created' - created
           dropped == Len(old) + k - Len(new)
           pushed(was, is, cap) ==
               /\ Len(is) >= 1
               /\ is = Append(IF Len(was) < cap THEN was ELSE Tail(was), is[Len(is)])
       IN  /\ k >= 0 /\ dropped >= 0
           /\ k > 0 => last'.task \in {"morning", "eod"} /\ last'.op \in {"done", "writeFail"}
           /\ \A i \in 1..(Len(new) - k) :
                 \/ new[i] = old[i + dropped]
                 \/ /\ by("nightly-review", {"askDone", "writeFail"})
                    /\ SameCall(new[i], old[i + dropped])
                    /\ new[i].reviewedAt = DateNow
           /\ IF by("weekly-review", {"askDone"})
              THEN pushed(perf.weeklyScores, perf'.weeklyScores, ScoreCap)
              ELSE perf'.weeklyScores = perf.weeklyScores
           /\ \/ perf'.strategyNotes = perf.strategyNotes
              \/ /\ by("nightly-review", {"askDone"})
                 /\ pushed(perf.strategyNotes, perf'.strategyNotes, NoteCap)
           /\ IF by("nightly-review", {"done"})
              THEN perf'.lastNightlyReview = utcToday
              ELSE \/ perf'.lastNightlyReview = perf.lastNightlyReview
                   \/ last'.op = "tick" /\ perf'.lastNightlyReview = utcToday
           /\ IF by("weekly-review", {"done"})
              THEN perf'.lastWeeklyReview = utcToday
              ELSE \/ perf'.lastWeeklyReview = perf.lastWeeklyReview
                   \/ last'.op = "tick" /\ perf'.lastWeeklyReview = utcToday]_vars

\* the nightly review and the weekly review were awaiting the collaborator at the
\* same time; the nightly review scored an entry after the weekly review had
\* counted the week, and the weekly review has now saved its score: the outcome
\* the weekly review did not count is still in the ledger
C20_Witness ==
    /\ last.op = "askDone" /\ last.task = "weekly-review"
    /\ Len(perf.weeklyScores) = 1
    /\ \E a \in jobs : a.name = "nightly-review" /\ a.pc = "post"
    /\ \E b \in jobs :
          /\ b.name = "weekly-review" /\ b.pc = "post"
          /\ b.week.totalCalls < CountOutcome(perf.recommendations, "correct")
                                   + CountOutcome(perf.recommendations, "wrong")
                                   + CountOutcome(perf.recommendations, "partial")
    /\ \E i \in 1..Len(perf.recommendations) :
          /\ perf.recommendations[i].reviewedAt = DateNow
          /\ perf.recommendations[i].outcome \in Terminal

\* C21: at no time are two instances of the same named job running, however long
\* a job waits at one of its awaits: any two jobs in flight have different names.
C21_OneInstancePerJob ==
    \A a, b \in jobs : a.name = b.name => a = b

\* the windows as the specification words them, on the New York wall clock:
\* d = 0 (Monday) .. 6 (Sunday), m = minute of the day
SpecWindow(task, d, m) ==
    CASE task = "morning" -> d \in 0..4 /\ m \in 510..515
      [] task = "eod" -> d \in 0..4 /\ m \in 990..995
      [] task = "nightly-review" -> d \in 0..4 /\ m \in 1200..1205
      [] task = "weekly-review" -> d = 4 /\ m \in 1230..1235
      [] task = "maintenance" -> d = 5 /\ m \in 540..545

\* C22: a task is dispatched only by a tick whose New York weekday, hour and
\* minute lie in the task's window, and a tick dispatches at most one task; the
\* window tests of the callback are pairwise disjoint over the whole week.
C22_OnlyInWindow ==
    /\ [](last.op = "start" =>
            \A day \in 0..6, hour \in 0..23, minute \in 0..59 :
                Cardinality({t \in Tasks :
                    InWindowAt(t, day \in 1..5, day, hour, minute)}) <= 1)
    /\ [][LET fired == {t \in Tasks : CopiesIn(<<t, getTodayET>>, dispatched')
                                          > CopiesIn(<<t, getTodayET>>, dispatched)}
          IN  /\ dispatched' # dispatched => fired # {} /\ last'.op = "tick"
              /\ Cardinality(fired) <= 1
              /\ \A t \in fired :
                    SpecWindow(t, (etWall \div MinutesPerDay) % 7, etWall % MinutesPerDay)]_vars

\* Friday 20:30 in New York: the tick has dispatched the weekly review, alone, on
\* the day whose nightly review was dispatched by the 20:00 tick
C22_Witness ==
    /\ last.op = "tick" /\ last.task = "weekly-review"
    /\ getTodayET % 7 = 4 /\ etWall % MinutesPerDay = 1230
    /\ <<"nightly-review", getTodayET>> \in marks
    /\ CopiesIn(<<"weekly-review", getTodayET>>, dispatched) = 1

\* a step that is a call of consolidateOldFiles made right after another one: no
\* file was saved, written again or pruned since (the clock may have moved)
SecondRun ==
    /\ last.op = "consolidateOldFiles"
    /\ last'.op = "consolidateOldFiles"
    /\ apiCalls' = apiCalls + 1

MondayOf(d) == d - (d % 7)

\* a step that is a call of consolidateOldFiles meeting no fault
CleanRun ==
    /\ last'.op = "consolidateOldFiles"
    /\ apiCalls' = apiCalls + 1
    /\ last'.task.fault = NoFault

\* C24: every daily file older than 7 days is grouped under the Monday on or
\* before its embedded date, whatever its day of the week and its modification
\* time: a run that meets no fault leaves, for every such week with at least two
\* files and no summary yet, one summary named after that Monday and built from
\* exactly those files, and none of the files.
C24_MondayOnOrBefore ==
    [][CleanRun =>
          \A f \in Candidates(brain) :
              LET week == {g \in Candidates(brain) : MondayOf(g.date) = MondayOf(f.date)}
              IN  (/\ Cardinality(week) >= 2
                   /\ ~\E g \in brain : Name(g) = <<"weekly-summary", MondayOf(f.date)>>) =>
                      /\ \E g \in brain' : /\ Name(g) = <<"weekly-summary", MondayOf(f.date)>>
                                            /\ g.parts = {Name(h) : h \in week}
                      /\ week \cap brain' = {}]_vars

\* a step that is a call of consolidateOldFiles, whatever faults it meets
AnyRun ==
    /\ last'.op = "consolidateOldFiles"
    /\ apiCalls' = apiCalls + 1

\* the files a step summarised: the members of the summaries it wrote
Summarised == UNION {g.parts : g \in brain' \ brain}

\* the threshold over the groups as the code keys them: a summary is written
\* from at least two aged daily files, and files leave only into a summary
ThresholdByKey ==
    [][AnyRun =>
          /\ \A g \in brain' \ brain :
                 /\ g.prefix = "weekly-summary"
                 /\ Cardinality(g.parts) >= 2
                 /\ g.parts \subseteq {Name(f) : f \in {h \in Candidates(brain) : WeekKey(h.date) = g.date}}
          /\ \A f \in brain \ brain' : Name(f) \in Summarised]_vars

\* C25: consolidateOldFiles writes a summary and deletes members only for week
\* groups with at least 2 aged daily members: a file older than 7 days whose
\* Monday-to-Sunday week holds no other such file is still in the directory
\* after the run and is a member of no summary the run wrote.
C25_NoSiblingUntouched ==
    [][AnyRun =>
          \A f \in Candidates(brain) :
              (\A g \in Candidates(brain) : MondayOf(g.date) = MondayOf(f.date) => g = f) =>
                  /\ f \in brain'
                  /\ Name(f) \notin Summarised]_vars

\* a step that is a call of consolidateOldFiles in which nothing fails but some
\* unlinkSync
DeleteFailed ==
    /\ AnyRun
    /\ last'.task.fault.undeletable # {}
    /\ last'.task.fault = [NoFault EXCEPT !.undeletable = last'.task.fault.undeletable]

\* the groups such a step consolidates: the keys with at least two aged daily
\* files and no summary yet
Due ==
    {key \in {WeekKey(f.date) : f \in Candidates(brain)} :
        /\ Cardinality({f \in Candidates(brain) : WeekKey(f.date) = key}) >= 2
        /\ ~\E g \in brain : Name(g) = <<"weekly-summary", key>>}

\* C26: a failed delete of one member of a group does not raise, does not keep
\* the summary from being written from all the members, and does not keep the
\* other members from being deleted; the returned deleted count counts the
\* deletes that succeeded.
C26_DeleteFailureIsLocal ==
    [][DeleteFailed =>
          LET members == {f \in Candidates(brain) : WeekKey(f.date) \in Due}
              stuck == {f \in members : Name(f) \in last'.task.fault.undeletable}
          IN  /\ ~last'.task.threw
              /\ \A key \in Due :
                     \E g \in brain' :
                         /\ Name(g) = <<"weekly-summary", key>>
                         /\ g.parts = {Name(f) : f \in {h \in members : WeekKey(h.date) = key}}
              /\ (members \ stuck) \cap brain' = {}
              /\ stuck \subseteq brain'
              /\ last'.task.consolidated = Cardinality(Due)
              /\ last'.task.deleted = Cardinality(members \ stuck)]_vars

\* a run in which one member of a group could not be deleted and stays, while
\* the summary was written and another member was deleted
C26_Witness ==
    /\ last.op = "consolidateOldFiles"
    /\ last.task.consolidated = 1
    /\ last.task.deleted >= 1
    /\ \E f \in brain : /\ Name(f) \in last.task.fault.undeletable
                         /\ \E g \in brain : /\ g.prefix = "weekly-summary"
                                              /\ Name(f) \in g.parts
                                              /\ g.parts \ last.task.fault.undeletable # {}

\* a step that is a call of pruneOldAnalyses that could list the directory
PruneRun ==
    /\ last'.op = "pruneOldAnalyses"
    /\ apiCalls' = apiCalls + 1
    /\ ~last'.task.fault.stat

\* C27: pruneOldAnalyses deletes exactly the files with an analysis prefix that
\* were modified more than 30 days ago and whose delete succeeds: nothing with
\* another prefix, nothing modified within the last 30 days, nothing is added,
\* a failed delete does not stop the others, and the count is that of the deletes.
C27_PrunesExactly ==
    [][PruneRun =>
          LET due == {f \in brain : /\ f.prefix \in {"analysis", "options", "sentiment"}
                                    /\ now - f.mtime > 30 * MinutesPerDay}
              gone == {f \in due : Name(f) \notin last'.task.fault.undeletable}
          IN  /\ brain' = brain \ gone
              /\ last'.task.pruned = Cardinality(gone)
              /\ ~last'.task.threw]_vars

\* a pruning that deleted a file although the delete of another failed, and left
\* that one and an older file of another prefix
C27_Witness ==
    /\ last.op = "pruneOldAnalyses"
    /\ last.task.pruned = 1
    /\ \E f \in brain : Name(f) \in last.task.fault.undeletable /\ now - f.mtime > 30 * MinutesPerDay
    /\ \E f \in brain : f.prefix = "morning-brief" /\ now - f.mtime > 30 * MinutesPerDay

\* C28: a storage failure inside consolidateOldFiles or pruneOldAnalyses (the
\* listing cannot be read, a summary cannot be written) is recovered inside the
\* function and never thrown to its caller: every call returns.
C28_NeverThrown ==
    last.op \in {"consolidateOldFiles", "pruneOldAnalyses"} => ~last.task.threw

\* the empty default: no recommendations, no weekly scores, no strategy notes,
\* empty last-review dates
EmptyDocument ==
    [recommendations |-> <<>>, weeklyScores |-> <<>>, strategyNotes |-> <<>>,
     lastNightlyReview |-> NoDate, lastWeeklyReview |-> NoDate]

\* the interval callback has just dispatched task
Fired(task) ==
    /\ last'.op = "tick"
    /\ <<task, getTodayET>> \in marks' \ marks

\* C29: loadPerformance on a missing or unparseable document returns the empty
\* default, and what then runs on it completes: getPendingReviews finds nothing,
\* the nightly and the weekly review find nothing to review, start no job and
\* store their mark, a scan records its recommendations into a new ledger, and
\* no step fails unless a write, the collaborator or the channel fails.
C29_DefaultOnLoad ==
    [][(perf \in {Missing, Unparseable}) =>
          /\ loadPerformance(perf) = EmptyDocument
          /\ getPendingReviews(loadPerformance(perf)) = <<>>
          /\ Fired("nightly-review") =>
                 /\ \A j \in jobs' : j.name # "nightly-review"
                 /\ \/ perf' = [EmptyDocument EXCEPT !.lastNightlyReview = utcToday]
                    \/ failed' /\ perf' = perf
          /\ Fired("weekly-review") =>
                 /\ \A j \in jobs' : j.name # "weekly-review"
                 /\ \/ perf' = [EmptyDocument EXCEPT !.lastWeeklyReview = utcToday]
                    \/ failed' /\ perf' = perf
          /\ (last'.op = "done" /\ jobs' # jobs) =>
                 \/ perf' = perf /\ created' = created
                 \/ /\ created' = created + 1
                    /\ Len(perf'.recommendations) = 1
                    /\ perf'.recommendations[1].date = getTodayET
                    /\ perf'.recommendations[1].outcome = Undefined
                    /\ perf' = [EmptyDocument EXCEPT !.recommendations = perf'.recommendations]
          /\ (failed' /\ ~failed) =>
                 \/ last'.op \in {"writeFail", "askFail", "contextFail", "postFail"}
                 \/ last'.op = "tick" /\ perf' = perf]_vars

\* the nightly review has run on a missing document and stored its mark
C29_Witness ==
    /\ last.op = "tick"
    /\ last.task = "nightly-review"
    /\ ~failed
    /\ perf = [EmptyDocument EXCEPT !.lastNightlyReview = utcToday]

\* Math.min on naturals
Least(a, b) == IF a < b THEN a ELSE b

\* a step that is a call of exportWeeklySummary whose write succeeded
Exported ==
    /\ last'.op = "exportWeeklySummary"
    /\ apiCalls' = apiCalls + 1
    /\ last'.task = TRUE

\* C30: an export replaces the whole snapshot by a document of the current
\* state: the last 5 strategy notes and the last 10 recommendations in ledger
\* order, the most recent weekly score and its lesson, the counts over all
\* recommendations with a terminal outcome, stamped with the instant of the
\* export; it has no other content, so nothing of the previous snapshot stays.
C30_SnapshotOfCurrentState ==
    [][Exported =>
          LET data == loadPerformance(perf)
              recs == data.recommendations
              notes == data.strategyNotes
              scores == data.weeklyScores
              n == Least(10, Len(recs))
              k == Least(5, Len(notes))
              count(o) == Cardinality({i \in 1..Len(recs) : recs[i].outcome = o})
              total == count("correct") + count("wrong") + count("partial")
          IN  /\ DOMAIN snapshot' = {"generated", "reviewed", "accuracy", "correct", "wrong",
                                     "partial", "lastWeek", "lesson", "notes", "recs"}
              /\ snapshot'.generated = DateNow
              /\ snapshot'.notes = [i \in 1..k |-> notes[Len(notes) - k + i]]
              /\ Len(snapshot'.recs) = n
              /\ \A i \in 1..n :
                     LET r == recs[Len(recs) - n + i]
                         line == snapshot'.recs[i]
                     IN  /\ line.date = r.date /\ line.ticker = r.ticker
                         /\ line.direction = r.direction /\ line.confidence = r.confidence
                         /\ line.summary = r.summary
                         /\ line.outcome = IF r.outcome \in Terminal THEN r.outcome ELSE "pending"
              /\ snapshot'.lastWeek = IF Len(scores) = 0 THEN <<>>
                                      ELSE <<scores[Len(scores)].weekOf,
                                             scores[Len(scores)].accuracy>>
              /\ snapshot'.lesson = IF Len(scores) = 0 THEN <<>>
                                    ELSE <<scores[Len(scores)].lesson>>
              /\ snapshot'.reviewed = total
              /\ snapshot'.correct = count("correct")
              /\ snapshot'.wrong = count("wrong")
              /\ snapshot'.partial = count("partial")
              /\ snapshot'.accuracy = IF total = 0 THEN -1
                                      ELSE (200 * count("correct") + total) \div (2 * total)]_vars

\* an export has replaced an older snapshot from a ledger of more than 10
\* recommendations, more than 5 notes and a weekly score
C30_Witness ==
    /\ last.op = "exportWeeklySummary"
    /\ last.task = TRUE
    /\ snapshot.generated = DateNow
    /\ Len(loadPerformance(perf).recommendations) > 10 /\ Len(snapshot.recs) = 10
    /\ Len(loadPerformance(perf).strategyNotes) > 5 /\ Len(snapshot.notes) = 5
    /\ snapshot.lastWeek # <<>>
    /\ snapshot.reviewed > 10

\* C31: the persisted-date guard of nightlyReview stops a review only if one
\* already completed on the same local day: in a process that runs on, a nightly
\* review dispatched while recommendations of an earlier local day are pending
\* goes on to evaluate them (its job is in flight after the callback).
C31_NextDayReviewRuns ==
    [][(/\ Fired("nightly-review")
        /\ \E i \in 1..Len(getPendingReviews(loadPerformance(perf))) :
               getPendingReviews(loadPerformance(perf))[i].date < getTodayET) =>
          \E j \in jobs' : j.name = "nightly-review" /\ j.today = getTodayET]_vars

\* C32: while the process runs, a tick inside a task's window on a qualifying
\* New York day leaves the task dispatched exactly once for that day: the first
\* such tick dispatches it, a later one does not dispatch it again.
C32_DispatchedOnFirstTick ==
    [][(~ticked /\ ticked') =>
          \A t \in Tasks :
              SpecWindow(t, (etWall \div MinutesPerDay) % 7, etWall % MinutesPerDay) =>
                  /\ CopiesIn(<<t, getTodayET>>, dispatched') = 1
                  /\ CopiesIn(<<t, getTodayET>>, dispatched) = 0 =>
                         last'.op = "tick" /\ last'.task = t]_vars

\* Saturday 09:03 in New York: the second tick inside the maintenance window,
\* which the 09:00 tick has served, dispatches nothing
C32_Witness ==
    /\ last.op = "tick" /\ last.task = "none"
    /\ getTodayET % 7 = 5 /\ etWall % MinutesPerDay = 543
    /\ CopiesIn(<<"maintenance", getTodayET>>, dispatched) = 1
    /\ CopiesIn(<<"weekly-review", getTodayET - 1>>, dispatched) = 1

\* the youngest of the 16 pending recommendations of SpecStarve
Sixteenth == StoredLedger(ReviewCap + 2, etOffset)[ReviewCap + 2].id

\* C33: if nightly reviews keep succeeding, every eligible pending
\* recommendation is eventually in the list a nightly review sends to the
\* collaborator, or evicted from the ledger: the sixteenth pending
\* recommendation is not starved by fifteen older ones that are skipped.
C33_NoStarvation ==
    ([]~failed /\ []<>(last.op = "done" /\ last.task = "nightly-review")) =>
        <>(\/ \E j \in jobs : /\ j.name = "nightly-review"
                               /\ \E k \in 1..Len(j.listed) : j.listed[k] = Sixteenth
           \/ \A i \in 1..Len(perf.recommendations) : perf.recommendations[i].id # Sixteenth)

\* C34: a nightly review changes only the recommendations that were in the
\* enumerated list of its cycle; every other ledger entry keeps its outcome,
\* reviewedAt and reviewNotes, whatever ids the answer names.
C34_OnlyListedChange ==
    [][\A j \in jobs \ jobs' :
        (j.name = "nightly-review" /\ j.pc = "ask" /\ last'.op \in {"askDone", "writeFail"}) =>
            LET old == loadPerformance(perf).recommendations
                new == loadPerformance(perf').recommendations
            IN  /\ Len(new) = Len(old)
                /\ \A i \in 1..Len(old) :
                       (\A k \in 1..Len(j.listed) : j.listed[k] # old[i].id) =>
                           new[i] = old[i]]_vars

\* C35: consolidateOldFiles deletes a file only if the same run wrote a summary
\* that holds it; a weekly summary that exists, a file modified within the last
\* 7 days and a file without a daily prefix and an embedded date are neither
\* deleted nor rewritten.
C35_DeletesOnlySummarised ==
    [][AnyRun =>
          /\ \A f \in brain \ brain' :
                 \E g \in brain' \ brain : g.prefix = "weekly-summary" /\ Name(f) \in g.parts
          /\ \A f \in brain :
                 (f.prefix = "weekly-summary" \/ ~Aged(f, 7) \/ f.prefix \notin dailyPatterns
                      \/ ~f.dated) => f \in brain']_vars

\* a run has written a summary and deleted its two members beside an aged daily
\* file of the same week that it could not read and a file of this week
C35_Witness ==
    /\ last.op = "consolidateOldFiles"
    /\ last.task.consolidated = 1 /\ last.task.deleted = 2
    /\ \E f \in brain : Name(f) \in last.task.fault.unreadable
    /\ \E f \in brain : f.prefix \in dailyPatterns /\ ~Aged(f, 7)

\* Tuesday's brief of last week
Brief == File("morning-brief", -6, -6 * MinutesPerDay + 810)

\* C36: under repeated maintenance runs whose I/O succeeds, every daily file
\* older than 7 days that shares its week key with another such file is
\* eventually in a summary and out of the directory, also when its delete
\* failed, or it became 7 days old, after the summary of its week was written:
\* if every maintenance that is due is run, so is Tuesday's brief of last week.
C36_EventuallyConsolidated ==
    [](~ticked => <>ticked) =>
        ((/\ Brief \in Candidates(brain)
          /\ \E g \in Candidates(brain) : g # Brief /\ WeekKey(g.date) = WeekKey(Brief.date))
         ~> (/\ Brief \notin brain
             /\ \E g \in brain : g.prefix = "weekly-summary" /\ Name(Brief) \in g.parts))

\* C37: every weekly score of the document counts as many calls as it has
\* correct, wrong and partial ones, at least 2, and its accuracy is a percentage
\* between 0 and 100.
C37_ScoreInvariant ==
    \A i \in 1..Len(loadPerformance(perf).weeklyScores) :
        LET s == loadPerformance(perf).weeklyScores[i]
        IN  /\ s.totalCalls = s.correct + s.wrong + s.partial
            /\ s.totalCalls >= 2
            /\ s.accuracy \in 0..100

\* the weekly review has just recorded the score of a week with more than two
\* reviewed calls, a partial one among them, beside recommendations still pending
C37_Witness ==
    /\ last.op = "askDone" /\ last.task = "weekly-review"
    /\ Len(perf.weeklyScores) > 0
    /\ perf.weeklyScores[Len(perf.weeklyScores)].totalCalls > 2
    /\ perf.weeklyScores[Len(perf.weeklyScores)].partial >= 1
    /\ \E i \in 1..Len(perf.recommendations) : perf.recommendations[i].outcome = Undefined

\* a step that is a call of exportWeeklySummary
ExportRan ==
    /\ last'.op = "exportWeeklySummary"
    /\ apiCalls' = apiCalls + 1

\* C38: exportWeeklySummary leaves the performance document and every file of
\* the knowledge directory as they were, and a failure while the snapshot is
\* built or written is caught inside it: nothing reaches the caller and the
\* process, and the snapshot on disk stays.
C38_ExportFrame ==
    [][ExportRan =>
          /\ perf' = perf
          /\ brain' = brain
          /\ failed' = failed /\ alive' = alive /\ jobs' = jobs
          /\ ranToday' = ranToday /\ created' = created
          /\ (last'.task = FALSE => snapshot' = snapshot)]_vars

\* an export has failed over a document with recommendations and a directory
\* with a file: the snapshot of three weeks ago is still there and no failure
\* was raised
C38_Witness ==
    /\ last.op = "exportWeeklySummary" /\ last.task = FALSE
    /\ snapshot = StaleSnapshot
    /\ Len(loadPerformance(perf).recommendations) > 0
    /\ brain # {}
    /\ ~failed /\ alive

====
